---- MODULE Spec2Model ----
(***************************************************************************)
(* A model of the lmarena_proxy core: the CookiePool (cookie_pool.py), by  *)
(* itself and under concurrent callers, the retry/ban orchestration and    *)
(* the streaming emitter of ArenaClient (arena_client.py), its payload     *)
(* builder, model resolver and frame parser, and the status mapping of     *)
(* the HTTP handler (server.py).                                           *)
(*                                                                         *)
(* Strings are TLA+ strings; an ArenaAPIError is the record                *)
(* [status_code, message], with status_code = None when the error carries  *)
(* none.  A backend response is one entry of Responses; the retry loop     *)
(* draws one response per attempt, so the backend's behaviour is           *)
(* arbitrary and may change from one attempt to the next.                  *)
(***************************************************************************)
EXTENDS Integers, Sequences, FiniteSets, TLC

VARIABLES
    cookies,       \* CookiePool._cookies: the list of cookies still in rotation
    index,         \* CookiePool._index: the rotation cursor (0-based)
    pc,            \* per request: position inside ArenaClient._with_cookies
    cookie,        \* per request: the local `cookie` of _with_cookies
    attempts,      \* per request: the local `attempts`
    max_attempts,  \* per request: the local `max_attempts`
    last_exc,      \* per request: the local `last_exc` (<<>> is None)
    result,        \* per request: what the caller of _with_cookies observes
    pool0,         \* history: the pool's list when the request started
    log,           \* history: the backend attempts of the request, in order
    banned,        \* history: every cookie handed to ban()
    exc_in,        \* classifier run: the ArenaAPIError handed to _should_ban_cookie
    verdict,       \* classifier run: "unset", or what _should_ban_cookie returned
    made,          \* history: the list CookiePool.__init__ made
    lastOp,        \* pool calls: the last completed call of a CookiePool method
    window,        \* pool calls: what next() returned since the last ban(), newest last
    lock,          \* CookiePool._lock: 0 when free, else the thread that holds it
    thread,        \* per thread: its position inside a CookiePool method
    sse,           \* per request: the streaming response being produced
    messages,      \* builder run: the request.messages handed to _build_payload
    payload,       \* builder run: "unset", or what _build_payload returned or raised
    payload_text,  \* parser run: the string handed to _parse_stream_payload
    parsed,        \* parser run: "unset", or what _parse_stream_payload returned
    raw_lines,     \* reader run: the lines of a 200 response, as iter_lines gives them
    consumed,      \* reader run: "unset", or what the consumer of the stream got
    http           \* per request: the request at the HTTP boundary (server.py)

vars == <<cookies, index, pc, cookie, attempts, max_attempts, last_exc, result,
          pool0, log, banned, exc_in, verdict, made, lastOp, window,
          lock, thread, sse, messages, payload, payload_text, parsed, raw_lines,
          consumed, http>>

poolVars == <<cookies, index>>
reqVars == <<pc, cookie, attempts, max_attempts, last_exc, result, pool0, log, banned>>
banVars == <<exc_in, verdict>>
apiVars == <<made, lastOp, window>>
lockVars == <<lock, thread>>
sseVars == <<sse>>
pureVars == <<messages, payload, payload_text, parsed, raw_lines, consumed>>
httpVars == <<http>>

-----------------------------------------------------------------------------
(* Bounds of the model.                                                    *)

\* The largest pool CookiePool is constructed with.
MaxCookies == 4

\* The request handlers (threads of the server's pool) that share the pool.
Procs == {1, 2}

\* Spec runs its requests one after the other, on one handler.
Sequential == {1}

-----------------------------------------------------------------------------
(* Program constants.                                                      *)

\* ArenaAPIError.status_code defaults to None.
None == 0

\* response.text[:500]
BodyPreviewLen == 500

HTTP_OK == 200

-----------------------------------------------------------------------------
(* Strings: str.lower() and the substring test `a in b`.                   *)

UpperAlpha == "ABCDEFGHIJKLMNOPQRSTUVWXYZ"
LowerAlpha == "abcdefghijklmnopqrstuvwxyz"

Range(s) == {s[i] : i \in 1..Len(s)}

Min(a, b) == IF a < b THEN a ELSE b
Max(a, b) == IF a > b THEN a ELSE b

\* One character of str.lower(): an ASCII capital becomes its small letter.
LowerChar(c) ==
    IF \E i \in 1..Len(UpperAlpha) : SubSeq(UpperAlpha, i, i) = c
    THEN LET i == CHOOSE j \in 1..Len(UpperAlpha) : SubSeq(UpperAlpha, j, j) = c
         IN  SubSeq(LowerAlpha, i, i)
    ELSE c

\* str.lower()
RECURSIVE Lower(_)
Lower(s) ==
    IF Len(s) = 0 THEN ""
    ELSE IF Len(s) = 1 THEN LowerChar(s)
    ELSE LET h == Len(s) \div 2
         IN  Lower(SubSeq(s, 1, h)) \o Lower(SubSeq(s, h + 1, Len(s)))

\* `needle in hay` on strings
Contains(hay, needle) ==
    \E i \in 1..(Len(hay) + 1) :
        /\ i + Len(needle) - 1 <= Len(hay)
        /\ SubSeq(hay, i, i + Len(needle) - 1) = needle

\* s * n
RECURSIVE Repeat(_, _)
Repeat(s, n) ==
    IF n = 0 THEN ""
    ELSE IF n = 1 THEN s
    ELSE Repeat(s, n \div 2) \o Repeat(s, n - (n \div 2))

-----------------------------------------------------------------------------
(* ArenaAPIError and ArenaClient._should_ban_cookie.                       *)

ArenaAPIError(message, status_code) ==
    [status_code |-> status_code, message |-> message]

\* ban_triggers
BanTriggers ==
    << "invalid token",
       "not login",
       "usage limit",
       "too many concurrent requests",
       "rate limited" >>

\* _should_ban_cookie with the message compared as written (no lower()).
ShouldBanCookieCaseSensitive(exc) ==
    \/ exc.status_code \in {401, 403}
    \/ \E t \in 1..Len(BanTriggers) : Contains(exc.message, BanTriggers[t])

ShouldBanCookie(exc) ==
    IF exc.status_code \in {401, 403}
    THEN TRUE
    ELSE LET message == Lower(exc.message)
         IN  \E t \in 1..Len(BanTriggers) : Contains(message, BanTriggers[t])

-----------------------------------------------------------------------------
(* The backend, as ArenaClient._stream_payload sees it.  A response is     *)
(*   kind "unreachable": requests.post raised RequestsError(text);         *)
(*   kind "http": a response with `status` and `body`; with status 200 its *)
(*     lines are `frames`, given as what _parse_stream_payload makes of    *)
(*     each line: type "text" (an a0 frame), "end" ([DONE], ae, ad),       *)
(*     "skip" (a line the parser returns None for) or "error" (a JSON      *)
(*     frame with a message or error field).                               *)

Unreachable(text) ==
    [kind |-> "unreachable", status |-> None, body |-> "", text |-> text, frames |-> <<>>]

Http(status, body) ==
    [kind |-> "http", status |-> status, body |-> body, text |-> "", frames |-> <<>>]

Stream(frames) ==
    [kind |-> "http", status |-> HTTP_OK, body |-> "", text |-> "", frames |-> frames]

Text(t) == [type |-> "text", text |-> t]
End == [type |-> "end", text |-> ""]
Skip == [type |-> "skip", text |-> ""]
ErrorFrame(m) == [type |-> "error", text |-> m]

\* The responses the backend of the model may give to an attempt.
Responses ==
    << Stream(<<Text("Hi"), Text(" there"), End>>),
       Http(403, "Forbidden"),
       Http(401, "Unauthorized"),
       Http(500, "Internal Server Error"),
       Http(429, "Rate limited. Try again later."),
       Http(400, "malformed payload"),
       Stream(<<Text("Hi"), ErrorFrame("Usage limit reached")>>),
       Stream(<<Skip, ErrorFrame("boom")>>),
       Unreachable("Connection timed out"),
       Http(503, Repeat("x", BodyPreviewLen - 5) \o "rate limited"),
       Http(503, Repeat("x", BodyPreviewLen - 50) \o "RATE LIMITED"),
       Stream(<<End>>),
       Stream(<<Text("Hi")>>),
       Stream(<<Text(""), Text("a"), Skip, Text("b"), Text("c"), End, Text("late")>>),
       Stream(<<Text(""), ErrorFrame("Invalid token")>>),
       Stream(<<>>),
       Stream(<<Text("x"), Text("y"), ErrorFrame("boom")>>),
       Stream(<<Skip, ErrorFrame("Too many concurrent requests")>>) >>

RespIds == 1..Len(Responses)

\* SSEChunk
SSEChunk(text, continue_stream) == [text |-> text, continue_stream |-> continue_stream]

\* A line loop that goes on reading after a last chunk.
RECURSIVE IterLinesPastEnd(_, _)
IterLinesPastEnd(frames, yielded) ==
    IF frames = <<>> THEN [chunks |-> yielded, exc |-> <<>>]
    ELSE LET f == Head(frames)
         IN  CASE f.type = "error" ->
                    [chunks |-> yielded, exc |-> <<ArenaAPIError(f.text, None)>>]
               [] f.type = "skip" -> IterLinesPastEnd(Tail(frames), yielded)
               [] f.type = "text" ->
                    IterLinesPastEnd(Tail(frames), Append(yielded, SSEChunk(f.text, TRUE)))
               [] OTHER ->
                    IterLinesPastEnd(Tail(frames), Append(yielded, SSEChunk("", FALSE)))

\* The for loop of _stream_payload over the lines of a 200 response: the
\* chunks it yields, and the ArenaAPIError that ends it, if any.
RECURSIVE IterLines(_, _)
IterLines(frames, yielded) ==
    IF frames = <<>> THEN [chunks |-> yielded, exc |-> <<>>]
    ELSE LET f == Head(frames)
         IN  CASE f.type = "error" ->
                    [chunks |-> yielded, exc |-> <<ArenaAPIError(f.text, None)>>]
               [] f.type = "skip" -> IterLines(Tail(frames), yielded)
               [] f.type = "text" ->
                    IterLines(Tail(frames), Append(yielded, SSEChunk(f.text, TRUE)))
               [] OTHER ->
                    [chunks |-> Append(yielded, SSEChunk("", FALSE)), exc |-> <<>>]

\* _stream_payload with the whole response body in the message (no [:500]).
StreamPayloadWholeBody(r) ==
    IF r.kind = "unreachable"
    THEN [chunks |-> <<>>,
          exc |-> <<ArenaAPIError("Failed to reach LMArena: " \o r.text, None)>>]
    ELSE IF r.status # HTTP_OK
    THEN [chunks |-> <<>>,
          exc |-> <<ArenaAPIError("LMArena returned HTTP " \o ToString(r.status)
                                     \o ": " \o r.body,
                                  r.status)>>]
    ELSE IterLines(r.frames, <<>>)

\* _stream_payload(payload, cookie), run to its end against response r.
StreamPayload(r) ==
    IF r.kind = "unreachable"
    THEN [chunks |-> <<>>,
          exc |-> <<ArenaAPIError("Failed to reach LMArena: " \o r.text, None)>>]
    ELSE IF r.status # HTTP_OK
    THEN LET body_preview == SubSeq(r.body, 1, Min(BodyPreviewLen, Len(r.body)))
         IN  [chunks |-> <<>>,
              exc |-> <<ArenaAPIError("LMArena returned HTTP " \o ToString(r.status)
                                         \o ": " \o body_preview,
                                      r.status)>>]
    ELSE IterLines(r.frames, <<>>)

\* "".join(accumulated) over the chunks with a non-empty text
RECURSIVE JoinText(_)
JoinText(chunks) ==
    IF chunks = <<>> THEN "" ELSE Head(chunks).text \o JoinText(Tail(chunks))

\* chat_completion.execute(cookie) against response r: the assistant message
\* it returns, or the ArenaAPIError it raises.
Execute(r) ==
    LET sp == StreamPayload(r)
    IN  IF sp.exc # <<>>
        THEN [ok |-> FALSE, exc |-> sp.exc[1], content |-> "", finish_reason |-> ""]
        ELSE [ok |-> TRUE, exc |-> ArenaAPIError("", None), content |-> JoinText(sp.chunks),
              finish_reason |-> "stop"]

\* What each response of the model makes of an attempt.
Outcome == [i \in RespIds |-> Execute(Responses[i])]

-----------------------------------------------------------------------------
(* CookiePool.                                                             *)

\* next() that advances the cursor before it reads the value.
PoolNextAdvanceFirst(cs, idx) ==
    IF Len(cs) = 0
    THEN [raised |-> "IndexError", value |-> "", index |-> idx]
    ELSE [raised |-> "", value |-> cs[((idx + 1) % Len(cs)) + 1],
          index |-> (idx + 1) % Len(cs)]

\* next() that leaves the cursor where it is.
PoolNextStuck(cs, idx) ==
    IF Len(cs) = 0
    THEN [raised |-> "IndexError", value |-> "", index |-> idx]
    ELSE [raised |-> "", value |-> cs[idx + 1], index |-> idx]

\* CookiePool.next(): the value returned and the new cursor; on an empty list
\* the subscript raises IndexError and nothing changes.
PoolNext(cs, idx) ==
    IF Len(cs) = 0
    THEN [raised |-> "IndexError", value |-> "", index |-> idx]
    ELSE [raised |-> "", value |-> cs[idx + 1], index |-> (idx + 1) % Len(cs)]

\* ban() that builds the filtered list and never stores it.
PoolBanNoRemove(cs, idx, c) ==
    [raised |-> "", cookies |-> cs, index |-> idx]

\* ban() that deletes the entry under the cursor instead of the named cookie.
PoolBanAtCursor(cs, idx, c) ==
    IF c \notin Range(cs)
    THEN [raised |-> "", cookies |-> cs, index |-> idx]
    ELSE LET kept == SubSeq(cs, 1, idx) \o SubSeq(cs, idx + 2, Len(cs))
         IN  IF Len(kept) = 0
             THEN [raised |-> "RuntimeError", cookies |-> kept, index |-> idx]
             ELSE [raised |-> "", cookies |-> kept, index |-> idx % Len(kept)]

\* ban() without the final `self._index %= len(self._cookies)`.
PoolBanKeepCursor(cs, idx, c) ==
    IF c \notin Range(cs)
    THEN [raised |-> "", cookies |-> cs, index |-> idx]
    ELSE LET kept == SelectSeq(cs, LAMBDA value : value # c)
         IN  IF Len(kept) = 0
             THEN [raised |-> "RuntimeError", cookies |-> kept, index |-> idx]
             ELSE [raised |-> "", cookies |-> kept, index |-> idx]

\* ban() that rewinds the cursor when the cookie is not in the list.
PoolBanRewindIfAbsent(cs, idx, c) ==
    IF c \notin Range(cs)
    THEN [raised |-> "", cookies |-> cs, index |-> 0]
    ELSE LET kept == SelectSeq(cs, LAMBDA value : value # c)
         IN  IF Len(kept) = 0
             THEN [raised |-> "RuntimeError", cookies |-> kept, index |-> idx]
             ELSE [raised |-> "", cookies |-> kept, index |-> idx % Len(kept)]

\* CookiePool.ban(cookie): the new list and cursor, and the RuntimeError
\* raised when the removal empties the list.
PoolBan(cs, idx, c) ==
    IF c \notin Range(cs)
    THEN [raised |-> "", cookies |-> cs, index |-> idx]
    ELSE LET kept == SelectSeq(cs, LAMBDA value : value # c)
         IN  IF Len(kept) = 0
             THEN [raised |-> "RuntimeError", cookies |-> kept, index |-> idx]
             ELSE [raised |-> "", cookies |-> kept, index |-> idx % Len(kept)]

\* CookiePool.__len__()
PoolLen(cs) == Len(cs)

-----------------------------------------------------------------------------
(* ArenaClient._with_cookies, one action per stretch of code between two   *)
(* calls on the shared pool.  pc is                                        *)
(*   "idle"      no request yet                                            *)
(*   "init"      past the emptiness check of line 146                      *)
(*   "loop"      at the while condition of line 152                        *)
(*   "checkout"  about to call self._cookie_pool.next()                    *)
(*   "call"      about to call func(cookie)                                *)
(*   "ban"       in the handler, about to call self._cookie_pool.ban()     *)
(*   "recount"   after a ban that returned, at line 165                    *)
(*   "done"      _with_cookies has returned or raised: see result          *)

NoExc == ArenaAPIError("", None)
NoResult == [kind |-> "none", exc |-> NoExc, value |-> ""]
Returned(v) == [kind |-> "return", exc |-> NoExc, value |-> v]
Raised(e) == [kind |-> "raise", exc |-> e, value |-> ""]
\* An exception that is no ArenaAPIError leaves _with_cookies uncaught.
Uncaught(name) == [kind |-> "uncaught", exc |-> NoExc, value |-> name]

ExhaustedMessage == "All arena-auth cookies are exhausted."
Exhausted == ArenaAPIError(ExhaustedMessage, None)

\* max(1, len(self._cookie_pool)) * 2
MaxAttempts(n) == Max(1, n) * 2

\* Lines 171-173 without the `if last_exc` test.
AfterLoopAlwaysExhausted(last) == Raised(Exhausted)

\* Lines 171-173: what _with_cookies raises once the loop is left.
AfterLoop(last) == IF last # <<>> THEN Raised(last[1]) ELSE Raised(Exhausted)

\* A handler that answers every ArenaAPIError with a ban.
HandlerBanAll(exc) == "ban"

\* Lines 160-168: where the handler of an ArenaAPIError goes.
Handler(exc) == IF ShouldBanCookie(exc) THEN "ban" ELSE "raise"

\* No CookiePool method has been called yet.
NoOp == [op |-> "none", arg |-> "", before |-> <<>>, cursor |-> 0,
         raised |-> "", ret |-> "", size |-> 0]

\* A thread outside every CookiePool method.
IdleThread == [at |-> "idle", arg |-> "", value |-> "", before |-> <<>>, cursor |-> 0]

\* No streaming response is being produced.
NoStream == [state |-> "none", lines |-> <<>>, preloaded |-> <<>>, out |-> <<>>,
             role_sent |-> FALSE, completed |-> FALSE, resp |-> 0, cookie |-> "",
             exc |-> NoExc, swallowed |-> "", connection |-> "none"]

\* No run of _build_payload or of _parse_stream_payload is under way.
NoPureRun ==
    /\ messages = <<>>
    /\ payload = [state |-> "unset"]
    /\ payload_text = ""
    /\ parsed = [state |-> "unset"]
    /\ raw_lines = <<>>
    /\ consumed = [state |-> "unset"]

\* No request is at the HTTP boundary; `pool` and `cursor` are history: the
\* pool as the handler found it.
NoHttp ==
    [phase |-> "idle", request |-> [model |-> "", messages |-> <<>>, stream |-> FALSE],
     exc |-> <<>>, status |-> None, detail |-> "", pool |-> <<>>, cursor |-> 0]

\* Lines 146-147: a request enters _with_cookies, the first one or the one
\* after a request that has got its answer, the whole of its stream included.
Enter(p) ==
    /\ pc[p] \in {"idle", "done"}
    /\ sse[p].state \in {"none", "finished", "failed", "cancelled"}
    /\ sse' = [sse EXCEPT ![p] = NoStream]
    /\ pool0' = [pool0 EXCEPT ![p] = cookies]
    /\ log' = [log EXCEPT ![p] = <<>>]
    /\ IF PoolLen(cookies) = 0
       THEN /\ pc' = [pc EXCEPT ![p] = "done"]
            /\ result' = [result EXCEPT ![p] = Raised(Exhausted)]
       ELSE /\ pc' = [pc EXCEPT ![p] = "init"]
            /\ result' = [result EXCEPT ![p] = NoResult]
    /\ UNCHANGED <<cookie, attempts, max_attempts, last_exc, banned>>
    /\ UNCHANGED <<poolVars, banVars, pureVars, httpVars, apiVars, lockVars>>

\* Lines 148-150.
Setup(p) ==
    /\ pc[p] = "init"
    /\ max_attempts' = [max_attempts EXCEPT ![p] = MaxAttempts(PoolLen(cookies))]
    /\ attempts' = [attempts EXCEPT ![p] = 0]
    /\ last_exc' = [last_exc EXCEPT ![p] = <<>>]
    /\ pc' = [pc EXCEPT ![p] = "loop"]
    /\ UNCHANGED <<cookie, result, pool0, log, banned>>
    /\ UNCHANGED <<poolVars, banVars, pureVars, httpVars, apiVars, lockVars, sseVars>>

\* Lines 152-154, and 171-173 when the loop is left.
LoopTest(p) ==
    /\ pc[p] = "loop"
    /\ IF attempts[p] < max_attempts[p] /\ PoolLen(cookies) # 0
       THEN /\ pc' = [pc EXCEPT ![p] = "checkout"]
            /\ UNCHANGED result
       ELSE /\ pc' = [pc EXCEPT ![p] = "done"]
            /\ result' = [result EXCEPT ![p] = AfterLoop(last_exc[p])]
    /\ UNCHANGED <<cookie, attempts, max_attempts, last_exc, pool0, log, banned>>
    /\ UNCHANGED <<poolVars, banVars, pureVars, httpVars, apiVars, lockVars, sseVars>>

\* Line 155: cookie = self._cookie_pool.next()
Checkout(p) ==
    /\ pc[p] = "checkout"
    /\ LET r == PoolNext(cookies, index)
       IN  IF r.raised # ""
           THEN /\ pc' = [pc EXCEPT ![p] = "done"]
                /\ result' = [result EXCEPT ![p] = Uncaught(r.raised)]
                /\ UNCHANGED <<cookie, index>>
           ELSE /\ pc' = [pc EXCEPT ![p] = "call"]
                /\ cookie' = [cookie EXCEPT ![p] = r.value]
                /\ index' = r.index
                /\ UNCHANGED result
    /\ UNCHANGED <<cookies, attempts, max_attempts, last_exc, pool0, log, banned>>
    /\ UNCHANGED <<banVars, pureVars, httpVars, apiVars, lockVars, sseVars>>

\* The text read by the attempts of a log, one after the other.
RECURSIVE TextOfAttempts(_)
TextOfAttempts(entries) ==
    IF entries = <<>> THEN ""
    ELSE JoinText(StreamPayload(Responses[Head(entries).resp]).chunks)
             \o TextOfAttempts(Tail(entries))

\* An attempt whose result keeps the fragments read by the attempts before it.
AnswerKeepingFragments(p, i) ==
    /\ log' = [log EXCEPT ![p] = Append(@, [cookie |-> cookie[p], resp |-> i])]
    /\ IF Outcome[i].ok
       THEN /\ pc' = [pc EXCEPT ![p] = "done"]
            /\ result' = [result EXCEPT ![p] =
                              Returned(TextOfAttempts(log[p]) \o Outcome[i].content)]
            /\ UNCHANGED last_exc
       ELSE /\ last_exc' = [last_exc EXCEPT ![p] = <<Outcome[i].exc>>]
            /\ IF Handler(Outcome[i].exc) = "ban"
               THEN /\ pc' = [pc EXCEPT ![p] = "ban"]
                    /\ UNCHANGED result
               ELSE /\ pc' = [pc EXCEPT ![p] = "done"]
                    /\ result' = [result EXCEPT ![p] = Raised(Outcome[i].exc)]
    /\ UNCHANGED <<cookie, attempts, max_attempts, pool0, banned>>
    /\ UNCHANGED <<poolVars, banVars, pureVars, httpVars, apiVars, lockVars, sseVars>>

\* Lines 156-160 and 168: func(cookie) against response i of the backend; it
\* returns, or raises an ArenaAPIError that the handler either re-raises or
\* answers with a ban.
Answer(p, i) ==
    /\ log' = [log EXCEPT ![p] = Append(@, [cookie |-> cookie[p], resp |-> i])]
    /\ IF Outcome[i].ok
       THEN /\ pc' = [pc EXCEPT ![p] = "done"]
            /\ result' = [result EXCEPT ![p] = Returned(Outcome[i].content)]
            /\ UNCHANGED last_exc
       ELSE /\ last_exc' = [last_exc EXCEPT ![p] = <<Outcome[i].exc>>]
            /\ IF Handler(Outcome[i].exc) = "ban"
               THEN /\ pc' = [pc EXCEPT ![p] = "ban"]
                    /\ UNCHANGED result
               ELSE /\ pc' = [pc EXCEPT ![p] = "done"]
                    /\ result' = [result EXCEPT ![p] = Raised(Outcome[i].exc)]
    /\ UNCHANGED <<cookie, attempts, max_attempts, pool0, banned>>
    /\ UNCHANGED <<poolVars, banVars, pureVars, httpVars, apiVars, lockVars, sseVars>>

\* One attempt against the response the backend gives to it.
Call(p) ==
    /\ pc[p] = "call"
    /\ \E i \in RespIds : Answer(p, i)

\* A handler that continues the loop without the ban and without counting.
BanSkipped(p) ==
    /\ pc[p] = "ban"
    /\ pc' = [pc EXCEPT ![p] = "loop"]
    /\ UNCHANGED <<cookie, attempts, max_attempts, last_exc, result, pool0, log, banned>>
    /\ UNCHANGED <<poolVars, banVars, pureVars, httpVars, apiVars, lockVars, sseVars>>

\* Lines 161-164: self._cookie_pool.ban(cookie); its RuntimeError breaks out of
\* the loop to lines 171-173.
Ban(p) ==
    /\ pc[p] = "ban"
    /\ LET r == PoolBan(cookies, index, cookie[p])
       IN  /\ cookies' = r.cookies
           /\ index' = r.index
           /\ banned' = banned \cup {cookie[p]}
           /\ IF r.raised # ""
              THEN /\ pc' = [pc EXCEPT ![p] = "done"]
                   /\ result' = [result EXCEPT ![p] = AfterLoop(last_exc[p])]
              ELSE /\ pc' = [pc EXCEPT ![p] = "recount"]
                   /\ UNCHANGED result
    /\ UNCHANGED <<cookie, attempts, max_attempts, last_exc, pool0, log>>
    /\ UNCHANGED <<banVars, pureVars, httpVars, apiVars, lockVars, sseVars>>

\* Lines 165-167.
Recount(p) ==
    /\ pc[p] = "recount"
    /\ max_attempts' = [max_attempts EXCEPT ![p] = MaxAttempts(PoolLen(cookies))]
    /\ attempts' = [attempts EXCEPT ![p] = attempts[p] + 1]
    /\ pc' = [pc EXCEPT ![p] = "loop"]
    /\ UNCHANGED <<cookie, last_exc, result, pool0, log, banned>>
    /\ UNCHANGED <<poolVars, banVars, pureVars, httpVars, apiVars, lockVars, sseVars>>

-----------------------------------------------------------------------------
(* ArenaClient.chat_completion_stream: open_stream is the function that    *)
(* _with_cookies retries; the generator of _emit_sse_events is then run by *)
(* its consumer, one resumption at a time.                                 *)

\* One resumption of the generator _stream_payload on the lines not yet read
\* of a 200 response: the chunk it yields, or "stop" when it returns (the
\* lines are used up, or the chunk before was a last one), or "raise".
RECURSIVE BaseNext(_)
BaseNext(frames) ==
    IF frames = <<>>
    THEN [kind |-> "stop", chunk |-> SSEChunk("", FALSE), exc |-> NoExc, rest |-> <<>>]
    ELSE LET f == Head(frames)
         IN  CASE f.type = "error" ->
                    [kind |-> "raise", chunk |-> SSEChunk("", FALSE),
                     exc |-> ArenaAPIError(f.text, None), rest |-> <<>>]
               [] f.type = "skip" -> BaseNext(Tail(frames))
               [] f.type = "text" ->
                    [kind |-> "chunk", chunk |-> SSEChunk(f.text, TRUE),
                     exc |-> NoExc, rest |-> Tail(frames)]
               [] OTHER ->
                    [kind |-> "chunk", chunk |-> SSEChunk("", FALSE),
                     exc |-> NoExc, rest |-> <<>>]

\* open_stream that returns the stream without reading its first chunk.
OpenStreamNoPreload(r) ==
    IF r.kind = "unreachable" \/ r.status # HTTP_OK
    THEN [ok |-> FALSE, exc |-> StreamPayload(r).exc[1], preloaded |-> <<>>, rest |-> <<>>]
    ELSE [ok |-> TRUE, exc |-> NoExc, preloaded |-> <<>>, rest |-> r.frames]

\* open_stream(cookie) against response r (lines 111-124): the ArenaAPIError
\* it raises, or the preloaded first chunk and the lines left to the stream.
OpenStreamOn(r) ==
    IF r.kind = "unreachable" \/ r.status # HTTP_OK
    THEN [ok |-> FALSE, exc |-> StreamPayload(r).exc[1], preloaded |-> <<>>, rest |-> <<>>]
    ELSE LET first == BaseNext(r.frames)
         IN  CASE first.kind = "raise" ->
                    [ok |-> FALSE, exc |-> first.exc, preloaded |-> <<>>, rest |-> <<>>]
               [] first.kind = "stop" ->
                    [ok |-> TRUE, exc |-> NoExc, preloaded |-> <<>>, rest |-> <<>>]
               [] OTHER ->
                    [ok |-> TRUE, exc |-> NoExc, preloaded |-> <<first.chunk>>,
                     rest |-> first.rest]

\* What each response of the model makes of an attempt to open a stream.
Opened == [i \in RespIds |-> OpenStreamOn(Responses[i])]

\* next() of itertools.chain(preloaded, stream_iter)
ChainNext(pre, lines) ==
    IF pre # <<>>
    THEN [kind |-> "chunk", chunk |-> Head(pre), exc |-> NoExc,
          pre |-> Tail(pre), rest |-> lines]
    ELSE LET n == BaseNext(lines)
         IN  [kind |-> n.kind, chunk |-> n.chunk, exc |-> n.exc,
              pre |-> <<>>, rest |-> n.rest]

\* A content packet that carries the role whether or not one was sent before.
ContentPacketAlwaysRole(text, role_sent) ==
    [data |-> "chunk", keys |-> {"role", "content"}, role |-> "assistant",
     content |-> text, finish_reason |-> "None"]

\* Lines 350-367: the packet of a text chunk; `keys` are the keys of its delta
\* (model_dump(exclude_none=True) drops a role of None).
ContentPacket(text, role_sent) ==
    [data |-> "chunk",
     keys |-> IF role_sent THEN {"content"} ELSE {"role", "content"},
     role |-> IF role_sent THEN "" ELSE "assistant",
     content |-> text,
     finish_reason |-> "None"]

\* Lines 369-382: the packet with the empty delta and finish_reason "stop".
FinalPacket ==
    [data |-> "chunk", keys |-> {}, role |-> "", content |-> "", finish_reason |-> "stop"]

\* Line 400: "data: [DONE]\n\n"
DonePacket ==
    [data |-> "[DONE]", keys |-> {}, role |-> "", content |-> "", finish_reason |-> ""]

\* The loop that ends without a stop packet when it meets the last chunk.
RECURSIVE EmitResumeNoStopPacket(_, _, _)
EmitResumeNoStopPacket(pre, lines, role_sent) ==
    LET n == ChainNext(pre, lines)
    IN  CASE n.kind = "stop" ->
               [event |-> "exhausted", packet |-> DonePacket, exc |-> NoExc,
                pre |-> <<>>, lines |-> <<>>]
          [] n.kind = "raise" ->
               [event |-> "raise", packet |-> DonePacket, exc |-> n.exc,
                pre |-> <<>>, lines |-> <<>>]
          [] n.chunk.text # "" ->
               [event |-> "content", packet |-> ContentPacket(n.chunk.text, role_sent),
                exc |-> NoExc, pre |-> n.pre, lines |-> n.rest]
          [] ~n.chunk.continue_stream ->
               [event |-> "exhausted", packet |-> DonePacket, exc |-> NoExc,
                pre |-> <<>>, lines |-> <<>>]
          [] OTHER -> EmitResumeNoStopPacket(n.pre, n.rest, role_sent)

\* The loop that takes an error of the stream for its end.
RECURSIVE EmitResumeErrorAsEnd(_, _, _)
EmitResumeErrorAsEnd(pre, lines, role_sent) ==
    LET n == ChainNext(pre, lines)
    IN  CASE n.kind \in {"stop", "raise"} ->
               [event |-> "exhausted", packet |-> DonePacket, exc |-> NoExc,
                pre |-> <<>>, lines |-> <<>>]
          [] n.chunk.text # "" ->
               [event |-> "content", packet |-> ContentPacket(n.chunk.text, role_sent),
                exc |-> NoExc, pre |-> n.pre, lines |-> n.rest]
          [] ~n.chunk.continue_stream ->
               [event |-> "final", packet |-> FinalPacket, exc |-> NoExc,
                pre |-> n.pre, lines |-> n.rest]
          [] OTHER -> EmitResumeErrorAsEnd(n.pre, n.rest, role_sent)

\* Lines 349-391: the for loop of _emit_sse_events from its head to the next
\* packet it yields ("content", "final"), to its `else` when the stream is
\* used up ("exhausted"), or to the ArenaAPIError the stream raises.  A chunk
\* with a text always has continue_stream set (_parse_stream_payload), so the
\* loop head follows a content packet.
RECURSIVE EmitResume(_, _, _)
EmitResume(pre, lines, role_sent) ==
    LET n == ChainNext(pre, lines)
    IN  CASE n.kind = "stop" ->
               [event |-> "exhausted", packet |-> DonePacket, exc |-> NoExc,
                pre |-> <<>>, lines |-> <<>>]
          [] n.kind = "raise" ->
               [event |-> "raise", packet |-> DonePacket, exc |-> n.exc,
                pre |-> <<>>, lines |-> <<>>]
          [] n.chunk.text # "" ->
               [event |-> "content", packet |-> ContentPacket(n.chunk.text, role_sent),
                exc |-> NoExc, pre |-> n.pre, lines |-> n.rest]
          [] ~n.chunk.continue_stream ->
               [event |-> "final", packet |-> FinalPacket, exc |-> NoExc,
                pre |-> n.pre, lines |-> n.rest]
          [] OTHER -> EmitResume(n.pre, n.rest, role_sent)

\* The handler that lets the RuntimeError of ban() replace the stream's error.
EmitterHandlerPropagates(exc, cs, idx, c) ==
    IF ShouldBanCookie(exc)
    THEN LET r == PoolBan(cs, idx, c)
         IN  [cookies |-> r.cookies, index |-> r.index, banned |-> TRUE,
              swallowed |-> "", exc |-> IF r.raised # "" THEN Exhausted ELSE exc]
    ELSE [cookies |-> cs, index |-> idx, banned |-> FALSE, swallowed |-> "", exc |-> exc]

\* The handler that raises the error again without the ban.
EmitterHandlerNoBan(exc, cs, idx, c) ==
    [cookies |-> cs, index |-> idx, banned |-> FALSE, swallowed |-> "", exc |-> exc]

\* Lines 392-398: the ArenaAPIError handler of _emit_sse_events: the ban of
\* the stream's cookie, whose RuntimeError is caught and dropped, and the
\* error that is raised again.
EmitterHandler(exc, cs, idx, c) ==
    IF ShouldBanCookie(exc)
    THEN LET r == PoolBan(cs, idx, c)
         IN  [cookies |-> r.cookies, index |-> r.index, banned |-> TRUE,
              swallowed |-> r.raised, exc |-> exc]
    ELSE [cookies |-> cs, index |-> idx, banned |-> FALSE, swallowed |-> "", exc |-> exc]

\* Lines 156-160, 168 and 126-133 for a streaming request: open_stream(cookie)
\* against the response the backend gives to this attempt; when it returns,
\* chat_completion_stream hands the generator of the packets to its caller.
OpenStream(p) ==
    /\ pc[p] = "call"
    /\ \E i \in RespIds :
         /\ log' = [log EXCEPT ![p] = Append(@, [cookie |-> cookie[p], resp |-> i])]
         /\ IF Opened[i].ok
            THEN /\ pc' = [pc EXCEPT ![p] = "done"]
                 /\ result' = [result EXCEPT ![p] = Returned("")]
                 /\ sse' = [sse EXCEPT ![p] =
                              [state |-> "open", lines |-> Opened[i].rest,
                               preloaded |-> Opened[i].preloaded, out |-> <<>>,
                               role_sent |-> FALSE, completed |-> FALSE,
                               resp |-> i, cookie |-> cookie[p],
                               exc |-> NoExc, swallowed |-> "",
                               connection |-> IF Opened[i].preloaded = <<>>
                                              THEN "closed" ELSE "open"]]
                 /\ UNCHANGED last_exc
            ELSE /\ last_exc' = [last_exc EXCEPT ![p] = <<Opened[i].exc>>]
                 /\ UNCHANGED sse
                 /\ IF Handler(Opened[i].exc) = "ban"
                    THEN /\ pc' = [pc EXCEPT ![p] = "ban"]
                         /\ UNCHANGED result
                    ELSE /\ pc' = [pc EXCEPT ![p] = "done"]
                         /\ result' = [result EXCEPT ![p] = Raised(Opened[i].exc)]
    /\ UNCHANGED <<cookie, attempts, max_attempts, pool0, banned>>
    /\ UNCHANGED <<poolVars, banVars, pureVars, httpVars, apiVars, lockVars>>

\* The consumer resumes the generator of _emit_sse_events inside its loop
\* (lines 349-398): it yields the next packet, or [DONE] when the stream is
\* used up, or raises the stream's error after its handler has run.
EmitChunk(p) ==
    /\ sse[p].state = "open"
    /\ LET e == EmitResume(sse[p].preloaded, sse[p].lines, sse[p].role_sent)
       IN  CASE e.event = "content" ->
                  /\ sse' = [sse EXCEPT ![p].out = Append(@, e.packet),
                                        ![p].role_sent = TRUE,
                                        ![p].preloaded = e.pre,
                                        ![p].lines = e.lines]
                  /\ UNCHANGED <<poolVars, banned>>
             [] e.event = "final" ->
                  /\ sse' = [sse EXCEPT ![p].out = Append(@, e.packet),
                                        ![p].state = "final_sent",
                                        ![p].preloaded = e.pre,
                                        ![p].lines = e.lines]
                  /\ UNCHANGED <<poolVars, banned>>
             [] e.event = "exhausted" ->
                  /\ sse' = [sse EXCEPT ![p].out = Append(@, DonePacket),
                                        ![p].state = "done_sent",
                                        ![p].completed = TRUE,
                                        ![p].connection = "closed",
                                        ![p].preloaded = e.pre,
                                        ![p].lines = e.lines]
                  /\ UNCHANGED <<poolVars, banned>>
             [] OTHER ->
                  LET h == EmitterHandler(e.exc, cookies, index, sse[p].cookie)
                  IN  /\ cookies' = h.cookies
                      /\ index' = h.index
                      /\ banned' = IF h.banned THEN banned \cup {sse[p].cookie} ELSE banned
                      /\ sse' = [sse EXCEPT ![p].state = "failed",
                                            ![p].exc = h.exc,
                                            ![p].swallowed = h.swallowed,
                                            ![p].connection = "closed",
                                            ![p].preloaded = e.pre,
                                            ![p].lines = e.lines]
    /\ UNCHANGED <<pc, cookie, attempts, max_attempts, last_exc, result, pool0, log>>
    /\ UNCHANGED <<banVars, pureVars, httpVars, apiVars, lockVars>>

\* The consumer resumes the generator after the stop packet: lines 383-384,
\* then 399-400.
EmitDone(p) ==
    /\ sse[p].state = "final_sent"
    /\ sse' = [sse EXCEPT ![p].out = Append(@, DonePacket),
                          ![p].state = "done_sent",
                          ![p].completed = TRUE]
    /\ UNCHANGED <<poolVars, reqVars, banVars, pureVars, httpVars, apiVars, lockVars>>

\* The consumer resumes the generator after [DONE]: it returns, and with its
\* frame the generator of _stream_payload is released, whose `finally` (lines
\* 336-337) closes the response if it has not run yet.
EmitReturn(p) ==
    /\ sse[p].state = "done_sent"
    /\ sse' = [sse EXCEPT ![p].state = "finished", ![p].connection = "closed"]
    /\ UNCHANGED <<poolVars, reqVars, banVars, pureVars, httpVars, apiVars, lockVars>>

\* A cancellation that takes the stream's cookie out of the pool.
CancelWithBan(p) ==
    /\ sse[p].state \in {"open", "final_sent", "done_sent"}
    /\ sse' = [sse EXCEPT ![p].state = "cancelled", ![p].connection = "closed"]
    /\ cookies' = PoolBan(cookies, index, sse[p].cookie).cookies
    /\ index' = PoolBan(cookies, index, sse[p].cookie).index
    /\ UNCHANGED <<reqVars, banVars, pureVars, httpVars, apiVars, lockVars>>

\* The consumer closes the generator of _emit_sse_events before it has
\* returned: GeneratorExit is raised at the yield where it waits (or it never
\* starts), which `except ArenaAPIError` does not catch; the generator ends,
\* and with its frame the generator of _stream_payload is released, whose
\* `finally` (lines 336-337) closes the response.
Cancel(p) ==
    /\ sse[p].state \in {"open", "final_sent", "done_sent"}
    /\ sse' = [sse EXCEPT ![p].state = "cancelled", ![p].connection = "closed"]
    /\ UNCHANGED <<poolVars, reqVars, banVars, pureVars, httpVars, apiVars, lockVars>>

-----------------------------------------------------------------------------
(* The specification: a pool constructed from 1..MaxCookies distinct       *)
(* cookies with its cursor anywhere (random.randrange), serving one        *)
(* request after the other.                                                *)

CookieName(i) == "cookie" \o ToString(i)

\* CookiePool.__init__ on a list of n distinct, stripped, non-empty values.
NewPool(n) == [i \in 1..n |-> CookieName(i)]

Init ==
    /\ \E n \in 1..MaxCookies :
         /\ cookies = NewPool(n)
         /\ index \in 0..(n - 1)
    /\ pc = [p \in Procs |-> "idle"]
    /\ cookie = [p \in Procs |-> ""]
    /\ attempts = [p \in Procs |-> 0]
    /\ max_attempts = [p \in Procs |-> 0]
    /\ last_exc = [p \in Procs |-> <<>>]
    /\ result = [p \in Procs |-> NoResult]
    /\ pool0 = [p \in Procs |-> <<>>]
    /\ log = [p \in Procs |-> <<>>]
    /\ banned = {}
    /\ exc_in = NoExc
    /\ verdict = "unset"
    /\ made = cookies
    /\ lastOp = NoOp
    /\ window = <<>>
    /\ lock = 0
    /\ thread = [p \in Procs |-> IdleThread]
    /\ sse = [p \in Procs |-> NoStream]
    /\ NoPureRun
    /\ http = [p \in Procs |-> NoHttp]

Next ==
    \E p \in Sequential :
        \/ Enter(p)
        \/ Setup(p)
        \/ LoopTest(p)
        \/ Checkout(p)
        \/ Call(p)
        \/ Ban(p)
        \/ Recount(p)

Spec == Init /\ [][Next]_vars

\* The largest pool of the streaming runs.
MaxStreamCookies == 3

\* The same, with every request a streaming one.
InitStream ==
    /\ \E n \in 1..MaxStreamCookies :
         /\ cookies = NewPool(n)
         /\ index \in 0..(n - 1)
    /\ pc = [p \in Procs |-> "idle"]
    /\ cookie = [p \in Procs |-> ""]
    /\ attempts = [p \in Procs |-> 0]
    /\ max_attempts = [p \in Procs |-> 0]
    /\ last_exc = [p \in Procs |-> <<>>]
    /\ result = [p \in Procs |-> NoResult]
    /\ pool0 = [p \in Procs |-> <<>>]
    /\ log = [p \in Procs |-> <<>>]
    /\ banned = {}
    /\ exc_in = NoExc
    /\ verdict = "unset"
    /\ made = cookies
    /\ lastOp = NoOp
    /\ window = <<>>
    /\ lock = 0
    /\ thread = [p \in Procs |-> IdleThread]
    /\ sse = [p \in Procs |-> NoStream]
    /\ NoPureRun
    /\ http = [p \in Procs |-> NoHttp]

NextStream ==
    \E p \in Sequential :
        \/ Enter(p)
        \/ Setup(p)
        \/ LoopTest(p)
        \/ Checkout(p)
        \/ OpenStream(p)
        \/ Ban(p)
        \/ Recount(p)
        \/ EmitChunk(p)
        \/ EmitDone(p)
        \/ EmitReturn(p)
        \/ Cancel(p)

SpecStream == InitStream /\ [][NextStream]_vars

-----------------------------------------------------------------------------
(* The classifier on its own: SpecBan hands _should_ban_cookie one error   *)
(* drawn from BanInputs and records its answer.                            *)

BanStatuses == {None, 400, 401, 403, 429, 500}

BanPrefixes == {"", "LMArena returned HTTP 429: "}

BanCores ==
    { "invalid token", "Invalid Token", "INVALID TOKEN",
      "not login", "Not Login", "NOT LOGIN",
      "usage limit", "Usage Limit", "USAGE LIMIT",
      "too many concurrent requests", "Too Many Concurrent Requests",
      "TOO MANY CONCURRENT REQUESTS",
      "rate limited", "Rate Limited", "rAtE lImItEd",
      "invalid  token", "invalid_token", "not logged in", "usage limits",
      "too many requests", "rate limit", "rate-limited", "boom", "" }

BanSuffixes == {"", "."}

BanInputs ==
    { ArenaAPIError(pre \o core \o post, st) :
        pre \in BanPrefixes, core \in BanCores, post \in BanSuffixes, st \in BanStatuses }

InitBan ==
    /\ cookies = NewPool(1)
    /\ index = 0
    /\ pc = [p \in Procs |-> "idle"]
    /\ cookie = [p \in Procs |-> ""]
    /\ attempts = [p \in Procs |-> 0]
    /\ max_attempts = [p \in Procs |-> 0]
    /\ last_exc = [p \in Procs |-> <<>>]
    /\ result = [p \in Procs |-> NoResult]
    /\ pool0 = [p \in Procs |-> <<>>]
    /\ log = [p \in Procs |-> <<>>]
    /\ banned = {}
    /\ exc_in \in BanInputs
    /\ verdict = "unset"
    /\ made = cookies
    /\ lastOp = NoOp
    /\ window = <<>>
    /\ lock = 0
    /\ thread = [p \in Procs |-> IdleThread]
    /\ sse = [p \in Procs |-> NoStream]
    /\ NoPureRun
    /\ http = [p \in Procs |-> NoHttp]

\* One call of ArenaClient._should_ban_cookie(exc_in).
Classify ==
    /\ verdict = "unset"
    /\ verdict' = IF ShouldBanCookie(exc_in) THEN "ban" ELSE "keep"
    /\ UNCHANGED <<exc_in, poolVars, reqVars, apiVars, lockVars, sseVars, pureVars, httpVars>>

NextBan == Classify

SpecBan == InitBan /\ [][NextBan]_vars

-----------------------------------------------------------------------------
(* The CookiePool by itself: constructed from a raw list, then called      *)
(* method after method in any order.  A call is one step, as every method  *)
(* runs under CookiePool._lock.                                            *)

\* The longest raw list handed to the constructor.
MaxRaw == 3

\* What str.strip() removes from both ends.
Whitespace == {" ", "\t", "\n"}

RECURSIVE LStrip(_)
LStrip(s) ==
    IF s = "" THEN ""
    ELSE IF SubSeq(s, 1, 1) \in Whitespace THEN LStrip(SubSeq(s, 2, Len(s)))
    ELSE s

RECURSIVE RStrip(_)
RStrip(s) ==
    IF s = "" THEN ""
    ELSE IF SubSeq(s, Len(s), Len(s)) \in Whitespace THEN RStrip(SubSeq(s, 1, Len(s) - 1))
    ELSE s

\* cookie.strip()
Strip(s) == RStrip(LStrip(s))

\* The loop of CookiePool.__init__: the values stripped, the blank ones and
\* the ones seen before dropped, the order of first appearance kept.
RECURSIVE CleanCookies(_, _)
CleanCookies(raw, cleaned) ==
    IF raw = <<>> THEN cleaned
    ELSE LET c == Strip(Head(raw))
         IN  IF c = "" \/ c \in Range(cleaned)
             THEN CleanCookies(Tail(raw), cleaned)
             ELSE CleanCookies(Tail(raw), Append(cleaned, c))

\* The values a raw list of the model is made of: cookies with and without
\* surrounding whitespace, the empty string and a blank one.
RawValues == {"a", " a", "b", "b\n", "c", "", "\t "}

RECURSIVE RawListsOf(_)
RawListsOf(n) ==
    IF n = 0 THEN {<<>>}
    ELSE {Append(l, v) : l \in RawListsOf(n - 1), v \in RawValues}

RawLists == UNION {RawListsOf(n) : n \in 0..MaxRaw}

\* The lists CookiePool.__init__ accepts (it raises ValueError on the others).
ConstructedPools == {CleanCookies(raw, <<>>) : raw \in RawLists} \ {<<>>}

\* The cookies a caller may name in ban(): those of the raw lists, and one
\* that no pool ever held.
BanArgs == {Strip(v) : v \in RawValues} \cup {"stranger"}

InitPool ==
    /\ cookies \in ConstructedPools
    /\ index \in 0..(Len(cookies) - 1)
    /\ pc = [p \in Procs |-> "idle"]
    /\ cookie = [p \in Procs |-> ""]
    /\ attempts = [p \in Procs |-> 0]
    /\ max_attempts = [p \in Procs |-> 0]
    /\ last_exc = [p \in Procs |-> <<>>]
    /\ result = [p \in Procs |-> NoResult]
    /\ pool0 = [p \in Procs |-> <<>>]
    /\ log = [p \in Procs |-> <<>>]
    /\ banned = {}
    /\ exc_in = NoExc
    /\ verdict = "unset"
    /\ made = cookies
    /\ lastOp = NoOp
    /\ window = <<>>
    /\ lock = 0
    /\ thread = [p \in Procs |-> IdleThread]
    /\ sse = [p \in Procs |-> NoStream]
    /\ NoPureRun
    /\ http = [p \in Procs |-> NoHttp]

\* The last n entries of a sequence.
LastN(seq, n) == SubSeq(seq, Max(1, Len(seq) - n + 1), Len(seq))

\* One call of CookiePool.next().
ApiNext ==
    LET r == PoolNext(cookies, index)
    IN  /\ index' = r.index
        /\ lastOp' = [op |-> "next", arg |-> "", before |-> cookies, cursor |-> index,
                      raised |-> r.raised, ret |-> r.value, size |-> 0]
        /\ window' = IF r.raised # "" THEN window
                     ELSE LastN(Append(window, r.value), Len(cookies))
        /\ UNCHANGED <<cookies, made, reqVars, banVars, pureVars, httpVars, lockVars, sseVars>>

\* One call of CookiePool.ban(c).
ApiBan(c) ==
    LET r == PoolBan(cookies, index, c)
    IN  /\ cookies' = r.cookies
        /\ index' = r.index
        /\ banned' = banned \cup {c}
        /\ lastOp' = [op |-> "ban", arg |-> c, before |-> cookies, cursor |-> index,
                      raised |-> r.raised, ret |-> "", size |-> 0]
        /\ window' = <<>>
        /\ UNCHANGED <<pc, cookie, attempts, max_attempts, last_exc, result, pool0, log>>
        /\ UNCHANGED <<made, banVars, pureVars, httpVars, lockVars, sseVars>>

\* One call of len(pool).
ApiLen ==
    /\ lastOp' = [op |-> "len", arg |-> "", before |-> cookies, cursor |-> index,
                  raised |-> "", ret |-> "", size |-> PoolLen(cookies)]
    /\ UNCHANGED <<poolVars, made, window, reqVars, banVars, pureVars, httpVars, lockVars, sseVars>>

NextPool ==
    \/ ApiNext
    \/ \E c \in BanArgs : ApiBan(c)
    \/ ApiLen

SpecPool == InitPool /\ [][NextPool]_vars

-----------------------------------------------------------------------------
(* The CookiePool under concurrent callers: the threads of Procs call      *)
(* next(), ban() and len() at any time; a method is entered by acquiring   *)
(* CookiePool._lock and runs statement by statement until it releases it,  *)
(* by return or by an exception.                                           *)

PoolOps == {"next", "ban", "len"}

\* The first statement of each method inside `with self._lock:`.
FirstStatement(op) ==
    CASE op = "next" -> "next_read"
      [] op = "ban" -> "ban_test"
      [] OTHER -> "len_read"

\* Entering a method with no regard for the lock.
AcquireWithoutLock(p, op, c) ==
    /\ thread[p].at = "idle"
    /\ lock' = p
    /\ thread' = [thread EXCEPT ![p] = [at |-> FirstStatement(op), arg |-> c, value |-> "",
                                         before |-> cookies, cursor |-> index]]
    /\ UNCHANGED <<poolVars, reqVars, banVars, pureVars, httpVars, apiVars, sseVars>>

\* `with self._lock:` of next() (line 29), ban(c) (line 35) or __len__ (line
\* 45): the thread waits until the lock is free and takes it.
Acquire(p, op, c) ==
    /\ thread[p].at = "idle"
    /\ lock = 0
    /\ lock' = p
    /\ thread' = [thread EXCEPT ![p] = [at |-> FirstStatement(op), arg |-> c, value |-> "",
                                         before |-> cookies, cursor |-> index]]
    /\ UNCHANGED <<poolVars, reqVars, banVars, pureVars, httpVars, apiVars, sseVars>>

\* A `with self._lock:` block that is left without giving the lock back.
ReleaseKeepingLock(p, op, raised, ret, size) ==
    /\ lock' = lock
    /\ thread' = [thread EXCEPT ![p] = IdleThread]
    /\ lastOp' = [op |-> op, arg |-> thread[p].arg, before |-> thread[p].before,
                  cursor |-> thread[p].cursor, raised |-> raised, ret |-> ret,
                  size |-> size]

\* The call of thread p ends and leaves the `with` block: the lock is
\* released and the call recorded.
Release(p, op, raised, ret, size) ==
    /\ lock' = 0
    /\ thread' = [thread EXCEPT ![p] = IdleThread]
    /\ lastOp' = [op |-> op, arg |-> thread[p].arg, before |-> thread[p].before,
                  cursor |-> thread[p].cursor, raised |-> raised, ret |-> ret,
                  size |-> size]

\* Line 30: value = self._cookies[self._index]
NextRead(p) ==
    /\ thread[p].at = "next_read"
    /\ IF index < Len(cookies)
       THEN /\ thread' = [thread EXCEPT ![p].at = "next_advance",
                                        ![p].value = cookies[index + 1]]
            /\ UNCHANGED <<lock, lastOp>>
       ELSE Release(p, "next", "IndexError", "", 0)
    /\ UNCHANGED <<poolVars, made, window, reqVars, banVars, pureVars, httpVars, sseVars>>

\* Line 31: self._index = (self._index + 1) % len(self._cookies)
NextAdvance(p) ==
    /\ thread[p].at = "next_advance"
    /\ IF Len(cookies) # 0
       THEN /\ index' = (index + 1) % Len(cookies)
            /\ thread' = [thread EXCEPT ![p].at = "next_return"]
            /\ UNCHANGED <<lock, lastOp>>
       ELSE /\ Release(p, "next", "ZeroDivisionError", "", 0)
            /\ UNCHANGED index
    /\ UNCHANGED <<cookies, made, window, reqVars, banVars, pureVars, httpVars, sseVars>>

\* Line 32: return value
NextReturn(p) ==
    /\ thread[p].at = "next_return"
    /\ Release(p, "next", "", thread[p].value, 0)
    /\ window' = LastN(Append(window, thread[p].value), Len(cookies))
    /\ UNCHANGED <<poolVars, made, reqVars, banVars, pureVars, httpVars, sseVars>>

\* Lines 36-37: if cookie not in self._cookies: return
BanTest(p) ==
    /\ thread[p].at = "ban_test"
    /\ thread' = [thread EXCEPT ![p].at = IF thread[p].arg \in Range(cookies)
                                           THEN "ban_filter" ELSE "ban_return"]
    /\ UNCHANGED <<lock, poolVars, reqVars, banVars, pureVars, httpVars, apiVars, sseVars>>

\* Line 38: self._cookies = [value for value in self._cookies if value != cookie]
BanFilter(p) ==
    /\ thread[p].at = "ban_filter"
    /\ cookies' = SelectSeq(cookies, LAMBDA value : value # thread[p].arg)
    /\ thread' = [thread EXCEPT ![p].at = "ban_empty"]
    /\ UNCHANGED <<lock, index, reqVars, banVars, pureVars, httpVars, apiVars, sseVars>>

\* Lines 39-41: if not self._cookies: raise RuntimeError(...)
BanEmpty(p) ==
    /\ thread[p].at = "ban_empty"
    /\ IF Len(cookies) = 0
       THEN /\ Release(p, "ban", "RuntimeError", "", 0)
            /\ banned' = banned \cup {thread[p].arg}
            /\ window' = <<>>
       ELSE /\ thread' = [thread EXCEPT ![p].at = "ban_mod"]
            /\ UNCHANGED <<lock, lastOp, banned, window>>
    /\ UNCHANGED <<pc, cookie, attempts, max_attempts, last_exc, result, pool0, log>>
    /\ UNCHANGED <<poolVars, made, banVars, pureVars, httpVars, sseVars>>

\* Line 42: self._index %= len(self._cookies)
BanMod(p) ==
    /\ thread[p].at = "ban_mod"
    /\ IF Len(cookies) # 0
       THEN /\ index' = index % Len(cookies)
            /\ thread' = [thread EXCEPT ![p].at = "ban_return"]
            /\ UNCHANGED <<lock, lastOp, banned, window>>
       ELSE /\ Release(p, "ban", "ZeroDivisionError", "", 0)
            /\ banned' = banned \cup {thread[p].arg}
            /\ window' = <<>>
            /\ UNCHANGED index
    /\ UNCHANGED <<pc, cookie, attempts, max_attempts, last_exc, result, pool0, log>>
    /\ UNCHANGED <<cookies, made, banVars, pureVars, httpVars, sseVars>>

\* ban() returns, at line 37 or by reaching the end of the `with` block.
BanReturn(p) ==
    /\ thread[p].at = "ban_return"
    /\ Release(p, "ban", "", "", 0)
    /\ banned' = banned \cup {thread[p].arg}
    /\ window' = <<>>
    /\ UNCHANGED <<pc, cookie, attempts, max_attempts, last_exc, result, pool0, log>>
    /\ UNCHANGED <<poolVars, made, banVars, pureVars, httpVars, sseVars>>

\* Line 46: return len(self._cookies)
LenRead(p) ==
    /\ thread[p].at = "len_read"
    /\ Release(p, "len", "", "", PoolLen(cookies))
    /\ UNCHANGED <<poolVars, made, window, reqVars, banVars, pureVars, httpVars, sseVars>>

NextLock ==
    \E p \in Procs :
        \/ \E op \in PoolOps, c \in BanArgs :
             Acquire(p, op, IF op = "ban" THEN c ELSE "")
        \/ NextRead(p)
        \/ NextAdvance(p)
        \/ NextReturn(p)
        \/ BanTest(p)
        \/ BanFilter(p)
        \/ BanEmpty(p)
        \/ BanMod(p)
        \/ BanReturn(p)
        \/ LenRead(p)

SpecLock == InitPool /\ [][NextLock]_vars

-----------------------------------------------------------------------------
(* Vocabulary of the properties.                                           *)

\* The five markers of a credential-related error, as the specification lists them.
CredentialMarkers ==
    { "invalid token", "not login", "usage limit",
      "too many concurrent requests", "rate limited" }

CharAt(s, i) == SubSeq(s, i, i)

\* Two characters that are equal up to the case of an ASCII letter.
SameLetter(a, b) ==
    \/ a = b
    \/ \E k \in 1..Len(UpperAlpha) :
         {a, b} = {CharAt(UpperAlpha, k), CharAt(LowerAlpha, k)}

\* needle occurs in hay at some offset, compared letter by letter without case.
ContainsIgnoreCase(hay, needle) ==
    \E off \in 0..(Len(hay) - Len(needle)) :
        \A j \in 1..Len(needle) : SameLetter(CharAt(hay, off + j), CharAt(needle, j))

HasMarker(text) == \E m \in CredentialMarkers : ContainsIgnoreCase(text, m)

\* An error is credential-related, as the specification defines it.
CredentialRelated(exc) ==
    exc.status_code \in {401, 403} \/ HasMarker(exc.message)

\* Per response of the model: its failure is credential-related.
FailsCredentialRelated ==
    [i \in RespIds |-> ~Outcome[i].ok /\ CredentialRelated(Outcome[i].exc)]

\* Per response of the model: its failure is not credential-related.
FailsOtherwise ==
    [i \in RespIds |-> ~Outcome[i].ok /\ ~CredentialRelated(Outcome[i].exc)]

\* Per response of the model: an HTTP response with a non-success status
\* other than 401 and 403.
OtherHttpStatus ==
    [i \in RespIds |-> Responses[i].kind = "http"
                       /\ Responses[i].status \notin {HTTP_OK, 401, 403}]

\* Per response of the model: a marker occurs in the first BodyPreviewLen
\* characters of the body.
MarkerInPreview ==
    [i \in RespIds |->
        HasMarker(SubSeq(Responses[i].body, 1, Min(BodyPreviewLen, Len(Responses[i].body))))]

Forbidden(i) == Responses[i].kind = "http" /\ Responses[i].status = 403

Finished(p) == pc[p] = "done"
Calls(p) == Len(log[p])
LastCall(p) == log[p][Len(log[p])]
Tried(p) == {log[p][i].cookie : i \in 1..Len(log[p])}
\* The cookies of the attempts of the request that failed credential-related.
FailedCookies(p) ==
    {log[p][i].cookie : i \in {j \in 1..Len(log[p]) : FailsCredentialRelated[log[p][j].resp]}}

-----------------------------------------------------------------------------
(* The claims.                                                             *)

\* C1: with a backend that answers HTTP 403 to every attempt and a pool of
\* n >= 1 credentials, one request bans every one of the n credentials, then
\* fails with the pool-exhausted error, after at most 2*n backend attempts.
C1_AllForbiddenEndsPoolExhausted ==
    \A p \in Procs :
        (/\ Finished(p)
         /\ pool0[p] # <<>>
         /\ \A i \in 1..Calls(p) : Forbidden(log[p][i].resp))
        => /\ cookies = <<>>
           /\ Range(pool0[p]) \subseteq banned
           /\ result[p] = Raised(Exhausted)
           /\ Calls(p) <= 2 * Len(pool0[p])

\* C2: a request never fails with a credential-related error while a
\* credential it has not tried remains in the pool.
C2_NoCredentialFailureWhileUntriedRemains ==
    \A p \in Procs :
        (/\ Finished(p)
         /\ result[p].kind = "raise"
         /\ CredentialRelated(result[p].exc))
        => Range(cookies) \subseteq Tried(p)

C4_OtherErrorSurfacesWithoutRetry ==
    \A p \in Procs : \A i \in 1..Calls(p) :
        FailsOtherwise[log[p][i].resp]
        => /\ i = Calls(p)
           /\ Finished(p)
           /\ result[p] = Raised(Outcome[log[p][i].resp].exc)
           /\ log[p][i].cookie \in Range(cookies)
           /\ log[p][i].cookie \notin banned
           /\ (i = 1 => cookies = pool0[p])

\* C4 witness: a first attempt answered with "malformed payload" (HTTP 400).
C4_Witness ==
    \E p \in Procs :
        /\ Finished(p)
        /\ Calls(p) = 1
        /\ result[p].kind = "raise"
        /\ result[p].exc.status_code = 400
        /\ cookies = pool0[p]

\* C5: the credential of an attempt that failed credential-related is out of
\* the pool before the next attempt begins, the next attempt uses a credential
\* that is in the pool (never a banned one), and no banned credential is ever
\* in the pool again.
C5_BannedBeforeNextAttemptAndForGood ==
    /\ banned \cap Range(cookies) = {}
    /\ \A p \in Procs :
         pc[p] \in {"loop", "checkout", "call"}
         => /\ Tried(p) \cap Range(cookies) = {}
            /\ Tried(p) \subseteq banned
            /\ pc[p] = "call"
               => (cookie[p] \in Range(cookies) /\ cookie[p] \notin Tried(p))

\* C5 witness: a second attempt is about to be made.
C5_Witness ==
    \E p \in Procs : pc[p] = "call" /\ Calls(p) = 1 /\ cookie[p] # log[p][1].cookie

\* C6: the backend attempts of one request never exceed twice the size the
\* pool had when the request started.
C6_AttemptsAtMostTwicePoolSize ==
    \A p \in Procs : Calls(p) <= 2 * Len(pool0[p])

\* C6 witness: a request that has made more than one attempt.
C6_Witness ==
    \E p \in Procs : Finished(p) /\ Calls(p) >= 2 /\ Len(pool0[p]) <= Calls(p)

\* C7: _should_ban_cookie answers "ban" exactly for the errors whose status
\* code is 401 or 403 or whose message contains one of the five markers,
\* compared without case.
C7_ClassifiedExactly ==
    verdict # "unset" => (verdict = "ban" <=> CredentialRelated(exc_in))

\* C7 witness: an error without status code whose message has a marker in
\* capitals was classified credential-related.
C7_Witness ==
    /\ verdict = "ban"
    /\ exc_in.status_code = None
    /\ exc_in.message = "TOO MANY CONCURRENT REQUESTS."

\* C8 (as claimed): an HTTP response with a non-success status other than 401
\* and 403 ends the request at that attempt, surfaced with its status code,
\* and its credential is not banned, whatever the body.
C8_OtherStatusNeverBanned ==
    \A p \in Procs : \A i \in 1..Calls(p) :
        OtherHttpStatus[log[p][i].resp]
        => /\ i = Calls(p)
           /\ Finished(p)
           /\ result[p].kind = "raise"
           /\ result[p].exc.status_code = Responses[log[p][i].resp].status
           /\ log[p][i].cookie \notin banned

\* C8 (amended): the same, for the responses with no marker in the first 500
\* characters of the body; with a marker there the attempt is answered with
\* a ban of its credential and is never surfaced while the loop goes on.
C8_OtherStatusSurfacedUnlessMarker ==
    \A p \in Procs : \A i \in 1..Calls(p) :
        OtherHttpStatus[log[p][i].resp]
        => IF MarkerInPreview[log[p][i].resp]
           THEN \/ pc[p] = "ban" /\ i = Calls(p)
                \/ log[p][i].cookie \in banned
           ELSE /\ i = Calls(p)
                /\ Finished(p)
                /\ result[p].kind = "raise"
                /\ result[p].exc.status_code = Responses[log[p][i].resp].status
                /\ log[p][i].cookie \notin banned
                /\ log[p][i].cookie \in Range(cookies)

\* C8 witness: HTTP 503 whose body has "rate limited" across the 500th
\* character was surfaced with status 503.
C8_Witness ==
    \E p \in Procs :
        /\ Finished(p)
        /\ Calls(p) >= 1
        /\ Len(Responses[LastCall(p).resp].body) > BodyPreviewLen
        /\ ~MarkerInPreview[LastCall(p).resp]
        /\ HasMarker(Responses[LastCall(p).resp].body)
        /\ result[p].kind = "raise"
        /\ result[p].exc.status_code = 503
        /\ LastCall(p).cookie \in Range(cookies)

\* C9 (as claimed): after a request that completed successfully the pool's
\* list is the list the request started with.
C9_SuccessLeavesPoolAsItWas ==
    \A p \in Procs :
        (Finished(p) /\ result[p].kind = "return") => cookies = pool0[p]

\* C9 (amended): after a request that completed successfully the pool's list
\* is the list it started with less exactly the credentials whose attempts
\* failed credential-related in that request; the credential of the
\* successful attempt is kept, and a request that succeeds at its first
\* attempt leaves the list as it was.
C9_SuccessRemovesOnlyFailedCredentials ==
    \A p \in Procs :
        (Finished(p) /\ result[p].kind = "return")
        => /\ cookies = SelectSeq(pool0[p], LAMBDA c : c \notin FailedCookies(p))
           /\ LastCall(p).cookie \in Range(cookies)
           /\ FailedCookies(p) = Tried(p) \ {LastCall(p).cookie}
           /\ (Calls(p) = 1 => cookies = pool0[p])

\* C9 witness: a request that succeeded at its second attempt.
C9_Witness ==
    \E p \in Procs :
        /\ Finished(p)
        /\ result[p].kind = "return"
        /\ Calls(p) = 2
        /\ Len(cookies) + 1 = Len(pool0[p])

\* C10: next() on a non-empty pool returns the credential at the cursor,
\* advances the cursor by one modulo the size, and leaves the list unchanged.
C10_NextReturnsCursorAndAdvances ==
    [][\A p \in Procs :
         (pc[p] = "checkout" /\ pc'[p] = "call")
         => /\ cookie'[p] = cookies[index + 1]
            /\ index' = (index + 1) % Len(cookies)
            /\ cookies' = cookies]_vars

\* C10 witness: next() returned the last credential of a list of several and
\* the cursor wrapped to the first.
C10_Witness ==
    \E p \in Procs :
        /\ pc[p] = "call"
        /\ Len(cookies) >= 2
        /\ cookie[p] = cookies[Len(cookies)]
        /\ index = 0

-----------------------------------------------------------------------------
(* The pool by itself (SpecPool).                                          *)

\* No value occurs twice in a list.
NoDuplicates(cs) == \A i, j \in 1..Len(cs) : i # j => cs[i] # cs[j]

\* The pool invariant: distinct cookies, and a cursor inside a non-empty list.
PoolInvariant ==
    /\ NoDuplicates(cookies)
    /\ Len(cookies) # 0 => (0 <= index /\ index < Len(cookies))

\* C11: after construction and after any sequence of next() and ban() calls
\* no cookie occurs twice in the pool, and whenever the pool is non-empty the
\* cursor designates one of its entries, also right after the cookie under
\* the cursor has been banned.
C11_PoolInvariantAfterAnyCalls == PoolInvariant

\* A ban has just removed the cookie under the cursor, which stood on the last
\* entry of a list that is still non-empty.
C11_Witness ==
    /\ lastOp.op = "ban"
    /\ Len(lastOp.before) >= 2
    /\ lastOp.cursor = Len(lastOp.before) - 1
    /\ lastOp.before[lastOp.cursor + 1] = lastOp.arg
    /\ cookies # <<>>

\* C12: with no ban in between, any n consecutive next() calls on a pool of n
\* cookies return every cookie exactly once: no value repeats among up to n
\* consecutive results, and n of them are the whole pool, wherever the cursor
\* started.
C12_RoundRobinVisitsEachOnce ==
    /\ Len(window) <= Len(cookies)
    /\ NoDuplicates(window)
    /\ Len(window) = Len(cookies) => Range(window) = Range(cookies)

\* Three consecutive calls on a pool of three whose cursor did not start on
\* the first entry.
C12_Witness ==
    /\ Len(cookies) = 3
    /\ Len(window) = 3
    /\ window[1] # cookies[1]
    /\ lastOp.op = "next"

\* C13: after ban(B) on a pool that holds B and at least one other cookie the
\* size is one less than before, and no later next() returns a banned cookie.
C13_BannedCookieGoneForGood ==
    /\ (lastOp.op = "ban" /\ lastOp.arg \in Range(lastOp.before)
            /\ Len(lastOp.before) >= 2)
         => (PoolLen(cookies) = PoolLen(lastOp.before) - 1 /\ lastOp.raised = "")
    /\ (lastOp.op = "next" /\ lastOp.raised = "") => lastOp.ret \notin banned
    /\ \A b \in banned : b \notin Range(cookies)

\* next() has returned a cookie after a ban removed another one from the pool.
C13_Witness ==
    /\ lastOp.op = "next"
    /\ lastOp.raised = ""
    /\ \E b \in banned : b \in Range(made)

\* C14: ban(c) of a cookie that is not in the pool changes neither the list
\* nor the cursor and raises nothing, and a second ban(c) right after a first
\* one leaves the pool as the first one left it.
C14_BanIsIdempotent ==
    [][ /\ (lastOp'.op = "ban" /\ lastOp'.arg \notin Range(cookies))
            => (cookies' = cookies /\ index' = index /\ lastOp'.raised = "")
        /\ (lastOp.op = "ban" /\ lastOp'.op = "ban" /\ lastOp'.arg = lastOp.arg)
            => (cookies' = cookies /\ index' = index /\ lastOp'.raised = "")
      ]_vars

\* ban() has been called on a cookie that an earlier ban had removed from the
\* pool, with the cursor not on the first entry.
C14_Witness ==
    /\ lastOp.op = "ban"
    /\ lastOp.arg \in Range(made)
    /\ lastOp.arg \notin Range(lastOp.before)
    /\ lastOp.cursor # 0

\* C15: once every cookie has been banned, next() fails with the pool's
\* exhaustion error, the RuntimeError that ban() raises and the retry loop
\* handles, and returns no cookie.
C15_NextOnEmptyPoolRaisesExhaustion ==
    (lastOp.op = "next" /\ lastOp.before = <<>>)
        => (lastOp.raised = "RuntimeError" /\ lastOp.ret = "")

-----------------------------------------------------------------------------
(* The pool under concurrent callers (SpecLock).                           *)

\* The last completed call returned, raised and left behind what the method
\* run alone on the pool it found at its entry returns, raises and leaves.
LastCallAtomic ==
    CASE lastOp.op = "next" ->
           LET r == PoolNext(lastOp.before, lastOp.cursor)
           IN  /\ lastOp.raised = r.raised
               /\ lastOp.ret = r.value
               /\ lock = 0 => (cookies = lastOp.before /\ index = r.index)
      [] lastOp.op = "ban" ->
           LET r == PoolBan(lastOp.before, lastOp.cursor, lastOp.arg)
           IN  /\ lastOp.raised = r.raised
               /\ lock = 0 => (cookies = r.cookies /\ index = r.index)
      [] lastOp.op = "len" ->
           /\ lastOp.size = PoolLen(lastOp.before)
           /\ lock = 0 => (cookies = lastOp.before /\ index = lastOp.cursor)
      [] OTHER -> TRUE

\* C17: under any interleaving of next(), ban() and len() calls of concurrent
\* threads every call takes effect atomically: only the thread that holds the
\* lock is inside a method, every completed call is the method run alone on
\* the list and cursor of one moment, next() never returns a cookie whose
\* ban() has returned, and the pool invariant holds whenever no call is in
\* progress.
C17_CallsAreAtomic ==
    /\ \A p \in Procs : thread[p].at # "idle" => lock = p
    /\ LastCallAtomic
    /\ (lastOp.op = "next" /\ lastOp.raised = "") => lastOp.ret \notin banned
    /\ lock = 0 => PoolInvariant

\* After a next() that returned a cookie, a thread is in the middle of a
\* ban(): it has stored the shorter list and not yet reduced the cursor, which
\* is past the end of the list, while the other thread is outside.
C17_Witness ==
    \E p \in Procs :
        /\ thread[p].at = "ban_mod"
        /\ lock = p
        /\ index >= Len(cookies)
        /\ lastOp.op = "next"
        /\ lastOp.ret # ""

-----------------------------------------------------------------------------
(* Streaming requests (SpecStream).                                        *)

\* The packets a stream has yielded so far, and the positions of those whose
\* delta has a content, has a role, or that close with a finish_reason.
Out(p) == sse[p].out
ContentAt(p) == {i \in 1..Len(Out(p)) : "content" \in Out(p)[i].keys}
RoleAt(p) == {i \in 1..Len(Out(p)) : "role" \in Out(p)[i].keys}
StopAt(p) == {i \in 1..Len(Out(p)) : Out(p)[i].finish_reason = "stop"}

\* The stream has yielded [DONE] as its last packet.
EndsWithDone(p) == Out(p) # <<>> /\ Out(p)[Len(Out(p))] = DonePacket

\* The backend response the stream of p reads.
Backend(p) == Responses[sse[p].resp]

\* The request of p found a non-empty pool, its stream never opened, and the
\* pool is empty now: a ban of its retry loop removed the last cookie.
LoopEmptiedPool(p) ==
    /\ pool0[p] # <<>>
    /\ cookies = <<>>
    /\ sse[p].state = "none"

TextsThenEnd(frames) ==
    /\ frames # <<>>
    /\ frames[Len(frames)] = End
    /\ \A i \in 1..(Len(frames) - 1) : frames[i].type = "text" /\ frames[i].text # ""

\* The concatenation of the texts of frames 1..n.
RECURSIVE ConcatTexts(_, _)
ConcatTexts(frames, n) ==
    IF n = 0 THEN "" ELSE ConcatTexts(frames, n - 1) \o frames[n].text

\* The concatenation of the contents of packets 1..n.
RECURSIVE ConcatContents(_, _)
ConcatContents(out, n) ==
    IF n = 0 THEN ""
    ELSE ConcatContents(out, n - 1)
           \o (IF "content" \in out[n].keys THEN out[n].content ELSE "")

\* C18: when the backend delivers the non-empty Text fragments t1..tk and
\* then End, the aggregated response has the content t1 ... tk concatenated
\* and finish_reason "stop", the stream yields exactly k content packets with
\* t1..tk in order, then one stop packet, then [DONE], and the streamed
\* contents concatenated are the aggregated content.
C18_StreamAndAggregateAgree ==
    \A p \in Sequential :
        (sse[p].state \in {"done_sent", "finished"} /\ TextsThenEnd(Backend(p).frames)) =>
            LET frames == Backend(p).frames
                k == Len(frames) - 1
                agg == Outcome[sse[p].resp]
            IN  /\ agg.ok
                /\ agg.content = ConcatTexts(frames, k)
                /\ agg.finish_reason = "stop"
                /\ Len(Out(p)) = k + 2
                /\ \A i \in 1..k :
                      /\ Out(p)[i].data = "chunk"
                      /\ "content" \in Out(p)[i].keys
                      /\ Out(p)[i].content = frames[i].text
                      /\ Out(p)[i].finish_reason = "None"
                /\ Out(p)[k + 1] = FinalPacket
                /\ Out(p)[k + 2] = DonePacket
                /\ ConcatContents(Out(p), Len(Out(p))) = agg.content

\* A stream of two fragments and End has run to its end.
C18_Witness ==
    \E p \in Sequential :
        /\ sse[p].state = "finished"
        /\ TextsThenEnd(Backend(p).frames)
        /\ Len(Backend(p).frames) >= 3

\* C19 as claimed: a streaming response has exactly one packet with the role
\* marker.
C19_ExactlyOneRolePacket ==
    \A p \in Sequential : EndsWithDone(p) => Cardinality(RoleAt(p)) = 1

\* C19, amended: at every moment of a stream, if it has yielded a content
\* packet then exactly one packet carries the role marker, the first content
\* packet, and otherwise none does; the marker is "assistant"; every content
\* packet carries a non-empty fragment and no finish_reason.
C19_RoleOnFirstContentPacketOnly ==
    \A p \in Sequential :
        /\ RoleAt(p) \subseteq ContentAt(p)
        /\ \A i \in ContentAt(p) :
              /\ Out(p)[i].content # ""
              /\ Out(p)[i].finish_reason = "None"
              /\ i \in RoleAt(p) <=> (\A j \in ContentAt(p) : i <= j)
              /\ Out(p)[i].role = (IF i \in RoleAt(p) THEN "assistant" ELSE "")
        /\ Cardinality(RoleAt(p)) = (IF ContentAt(p) = {} THEN 0 ELSE 1)
        /\ sse[p].role_sent <=> ContentAt(p) # {}

\* A stream whose backend began with an empty fragment has yielded three
\* content packets and run to its end.
C19_Witness ==
    \E p \in Sequential :
        /\ sse[p].state = "finished"
        /\ Cardinality(ContentAt(p)) >= 3
        /\ Backend(p).frames[1] = Text("")

\* C20: every stream that ends with [DONE] has, right before it, a packet
\* with an empty delta and finish_reason "stop", the only such packet of the
\* stream, however the backend stream ended without an error.
C20_StopPacketBeforeDone ==
    \A p \in Sequential :
        EndsWithDone(p) =>
            /\ Len(Out(p)) >= 2
            /\ Out(p)[Len(Out(p)) - 1] = FinalPacket
            /\ StopAt(p) = {Len(Out(p)) - 1}

\* How the backend stream of a 200 response ends for its reader: with an
\* "error" frame, an "end" frame, or the "close" of the connection.
RECURSIVE HowBackendEnds(_)
HowBackendEnds(frames) ==
    IF frames = <<>> THEN "close"
    ELSE IF Head(frames).type \in {"error", "end"} THEN Head(frames).type
    ELSE HowBackendEnds(Tail(frames))

\* What the first read of a 200 response meets: the type of its first frame
\* that is not skipped, or "close".
RECURSIVE FirstRead(_)
FirstRead(frames) ==
    IF frames = <<>> THEN "close"
    ELSE IF Head(frames).type = "skip" THEN FirstRead(Tail(frames))
    ELSE Head(frames).type

\* The attempt on response i fails while the connection is opened or on the
\* first read of the stream.
FailsAtOpen(i) ==
    \/ Responses[i].kind = "unreachable"
    \/ Responses[i].status # HTTP_OK
    \/ FirstRead(Responses[i].frames) = "error"

\* The attempts that fail credential-related at that point, per response.
BanAtOpen == [i \in RespIds |-> FailsAtOpen(i) /\ ShouldBanCookie(Opened[i].exc)]

\* The non-empty texts of the frames before the first End or error frame.
RECURSIVE TextsRead(_)
TextsRead(frames) ==
    IF frames = <<>> \/ Head(frames).type \in {"error", "end"} THEN <<>>
    ELSE IF Head(frames).type = "text" /\ Head(frames).text # ""
         THEN <<Head(frames).text>> \o TextsRead(Tail(frames))
         ELSE TextsRead(Tail(frames))

\* The contents of the content packets of p's stream, in order.
RECURSIVE ContentsOf(_)
ContentsOf(out) ==
    IF out = <<>> THEN <<>>
    ELSE IF "content" \in Head(out).keys
         THEN <<Head(out).content>> \o ContentsOf(Tail(out))
         ELSE ContentsOf(Tail(out))

IsPrefix(a, b) == Len(a) <= Len(b) /\ SubSeq(b, 1, Len(a)) = a

\* C21: a stream yields [DONE] only if the backend stream ended without an
\* error, and only as its last packet; a stream that failed on a backend
\* error has yielded no [DONE]; and after the failure or after [DONE] the
\* stream yields nothing more.
C21_DoneOnlyAfterCleanEnd ==
    /\ [](\A p \in Sequential :
            /\ \A i \in 1..Len(Out(p)) : Out(p)[i] = DonePacket => i = Len(Out(p))
            /\ DonePacket \in Range(Out(p)) =>
                  (sse[p].completed /\ HowBackendEnds(Backend(p).frames) # "error")
            /\ sse[p].state = "failed" =>
                  (DonePacket \notin Range(Out(p))
                     /\ HowBackendEnds(Backend(p).frames) = "error"))
    /\ [][\A p \in Sequential :
            (sse[p].state = "failed" \/ EndsWithDone(p))
               => (sse'[p].out = sse[p].out \/ sse'[p] = NoStream)]_vars

\* A stream has failed on a backend error after it had yielded two content
\* packets.
C21_Witness ==
    \E p \in Sequential :
        /\ sse[p].state = "failed"
        /\ Cardinality(ContentAt(p)) >= 2

\* C22: in a streaming request a credential-related failure while the
\* connection is opened or on the first read of the stream never hands a
\* stream to the caller: the cookie is banned and the loop goes on; a stream
\* that is handed over comes from the last attempt, which passed its first
\* read, after attempts that all failed credential-related, and all its
\* content packets carry the texts of that attempt's response.
C22_OpenFailureHandledBeforeHandover ==
    \A p \in Sequential :
        /\ \A i \in 1..Len(log[p]) :
              BanAtOpen[log[p][i].resp] =>
                  /\ i = Len(log[p]) => sse[p].state = "none"
                  /\ (i < Len(log[p]) \/ pc[p] # "ban") =>
                        (log[p][i].cookie \in banned
                           /\ log[p][i].cookie \notin Range(cookies))
        /\ sse[p].state # "none" =>
              /\ sse[p].resp = LastCall(p).resp
              /\ ~FailsAtOpen(sse[p].resp)
              /\ \A i \in 1..(Len(log[p]) - 1) : BanAtOpen[log[p][i].resp]
              /\ IsPrefix(ContentsOf(Out(p)), TextsRead(Backend(p).frames))

\* A stream has yielded a packet after an earlier attempt of its request had
\* failed credential-related on the first read of a 200 response.
C22_Witness ==
    \E p \in Sequential :
        /\ Out(p) # <<>>
        /\ Len(log[p]) >= 2
        /\ Responses[log[p][1].resp].status = HTTP_OK
        /\ FirstRead(Responses[log[p][1].resp].frames) = "error"

\* C23: once a stream has yielded a packet, a credential-related failure of
\* the backend stream is not retried: the request has made no further attempt
\* (its last attempt is the one that opened the stream), the stream fails
\* with that error, and the stream's cookie is banned and out of the pool.
C23_MidStreamFailureBansWithoutRetry ==
    \A p \in Sequential :
        /\ sse[p].state # "none" =>
              /\ pc[p] = "done"
              /\ LastCall(p) = [cookie |-> sse[p].cookie, resp |-> sse[p].resp]
        /\ (sse[p].state = "failed" /\ Out(p) # <<>> /\ ShouldBanCookie(sse[p].exc)) =>
              /\ sse[p].exc = Outcome[sse[p].resp].exc
              /\ result[p] = Returned("")
              /\ sse[p].cookie \in banned
              /\ sse[p].cookie \notin Range(cookies)

\* A stream has failed credential-related after a content packet, and the
\* pool still holds another cookie.
C23_Witness ==
    \E p \in Sequential :
        /\ sse[p].state = "failed"
        /\ ContentAt(p) # {}
        /\ ShouldBanCookie(sse[p].exc)
        /\ cookies # <<>>

\* C24: when the caller closes a stream, the backend connection is closed and
\* nothing is banned: the pool's list and cursor are the same after the
\* cancellation as before it, and the stream's cookie is still in the pool.
C24_CancelClosesAndKeepsCookie ==
    /\ [](\A p \in Sequential :
            sse[p].state = "cancelled" =>
                /\ sse[p].connection = "closed"
                /\ sse[p].cookie \in Range(cookies)
                /\ sse[p].cookie \notin banned)
    /\ [][\A p \in Sequential :
            (sse[p].state # "cancelled" /\ sse'[p].state = "cancelled")
               => (cookies' = cookies /\ index' = index /\ banned' = banned)]_vars

\* A stream has been cancelled after a content packet, before the End frame
\* of its backend was read.
C24_Witness ==
    \E p \in Sequential :
        /\ sse[p].state = "cancelled"
        /\ ContentAt(p) # {}
        /\ StopAt(p) = {}
        /\ sse[p].lines # <<>>
        /\ HowBackendEnds(sse[p].lines) = "end"

-----------------------------------------------------------------------------
(* ArenaClient._build_payload by itself: SpecPayload hands it one list of  *)
(* chat messages and records what it returns or raises.  A content is a    *)
(* string or a list of typed parts; a part's text of "" stands for every   *)
(* falsy text (None or the empty string).  uuid.uuid4().hex is modelled as *)
(* the k-th fresh token of the call.                                       *)

\* The longest request.messages of the builder runs.
MaxMessages == 3

MODEL_REGISTRY ==
    [n \in {"gemini-2.5-pro-preview-05-06"} |->
        [id |-> "0337ee08-8305-40c0-b820-123ad42b60cf",
         type |-> "chat",
         display_name |-> "Gemini 2.5 Pro (preview 2025-05-06)"]]

MODEL_ALIASES ==
    [k \in {"gemini-2.5-pro", "gemini-2.5-pro-preview", "gemini-2.5-pro-preview-05-06"} |->
        "gemini-2.5-pro-preview-05-06"]

\* models.py: a content that is a str, and one that is a list of parts.
StrContent(t) == [kind |-> "str", text |-> t, parts |-> <<>>]
ListContent(ps) == [kind |-> "list", text |-> "", parts |-> ps]

\* models.py: ChatMessageContentPart and ChatMessage.
ChatMessageContentPart(type, text) == [type |-> type, text |-> text]
ChatMessage(role, content) == [role |-> role, content |-> content]

\* The k-th value uuid.uuid4().hex gives inside one call of _build_payload.
Uuid(k) == "uuid" \o ToString(k)

\* "\n".join(parts)
RECURSIVE JoinLines(_)
JoinLines(parts) ==
    IF parts = <<>> THEN ""
    ELSE IF Len(parts) = 1 THEN parts[1]
    ELSE parts[1] \o "\n" \o JoinLines(Tail(parts))

\* Lines 258-266: the texts of the text-typed parts that have one.
RECURSIVE TextParts(_)
TextParts(entries) ==
    IF entries = <<>> THEN <<>>
    ELSE LET entry == Head(entries)
         IN  (IF entry.type = "text" /\ entry.text # "" THEN <<entry.text>> ELSE <<>>)
                 \o TextParts(Tail(entries))

\* Lines 254-267: ArenaClient._coerce_message_content
CoerceMessageContent(content) ==
    IF content.kind = "str" THEN content.text ELSE JoinLines(TextParts(content.parts))

\* Lines 204-215 and 228-239: one entry of arena_messages.
ArenaMessage(message_id, role, content, parent_ids, model_id, evaluation_id) ==
    [id |-> message_id, role |-> role, content |-> content,
     parentMessageIds |-> parent_ids, participantPosition |-> "a",
     modelId |-> model_id, evaluationSessionId |-> evaluation_id,
     status |-> "pending"]

\* A system message that keeps its role.
CollapseRoleKeepSystem(role) == role

\* Lines 199-202: a system message is sent as a user message.
CollapseRole(role) == IF role = "system" THEN "user" ELSE role

\* A loop that hangs every node under the last user message.
RECURSIVE WalkMessagesUnderLastUser(_, _, _, _)
WalkMessagesUnderLastUser(msgs, k, model_info, loc) ==
    IF k > Len(msgs) THEN loc
    ELSE LET message == msgs[k]
             message_id == Uuid(k)
             role == CollapseRole(message.role)
             model_id == IF role = "assistant" THEN <<model_info.id>> ELSE <<>>
             node == ArenaMessage(message_id, role,
                                  CoerceMessageContent(message.content),
                                  loc.last_user_message_id, model_id, Uuid(0))
         IN  WalkMessagesUnderLastUser(msgs, k + 1, model_info,
                 [arena_messages |-> Append(loc.arena_messages, node),
                  previous_message_id |-> <<message_id>>,
                  last_user_message_id |->
                      IF role = "user" THEN <<message_id>> ELSE loc.last_user_message_id])

\* Lines 196-222: the loop over the messages, from the k-th one on; loc holds
\* the locals arena_messages, previous_message_id and last_user_message_id
\* (an Optional[str] is <<>> for None, else <<value>>).
RECURSIVE WalkMessages(_, _, _, _)
WalkMessages(msgs, k, model_info, loc) ==
    IF k > Len(msgs) THEN loc
    ELSE LET message == msgs[k]
             message_id == Uuid(k)
             role == CollapseRole(message.role)
             model_id == IF role = "assistant" THEN <<model_info.id>> ELSE <<>>
             node == ArenaMessage(message_id, role,
                                  CoerceMessageContent(message.content),
                                  loc.previous_message_id, model_id, Uuid(0))
         IN  WalkMessages(msgs, k + 1, model_info,
                 [arena_messages |-> Append(loc.arena_messages, node),
                  previous_message_id |-> <<message_id>>,
                  last_user_message_id |->
                      IF role = "user" THEN <<message_id>> ELSE loc.last_user_message_id])

\* Line 225
EmptyConversation ==
    ArenaAPIError("Conversation must include at least one user message.", None)

\* A builder that appends no placeholder for the answer.
BuildPayloadNoPlaceholder(msgs, model_name) ==
    LET model_info == MODEL_REGISTRY[model_name]
        loc == WalkMessages(msgs, 1, model_info,
                   [arena_messages |-> <<>>, previous_message_id |-> <<>>,
                    last_user_message_id |-> <<>>])
    IN  IF loc.last_user_message_id = <<>>
        THEN [state |-> "raised", exc |-> EmptyConversation]
        ELSE [state |-> "built",
              id |-> Uuid(0), mode |-> "direct", modelAId |-> model_info.id,
              userMessageId |-> loc.last_user_message_id[1],
              modelAMessageId |-> Uuid(Len(msgs) + 1),
              messages |-> loc.arena_messages,
              modality |-> "chat"]

\* Lines 189-252: ArenaClient._build_payload
BuildPayload(msgs, model_name) ==
    LET model_info == MODEL_REGISTRY[model_name]
        loc == WalkMessages(msgs, 1, model_info,
                   [arena_messages |-> <<>>, previous_message_id |-> <<>>,
                    last_user_message_id |-> <<>>])
        model_message_id == Uuid(Len(msgs) + 1)
    IN  IF loc.last_user_message_id = <<>>
        THEN [state |-> "raised", exc |-> EmptyConversation]
        ELSE [state |-> "built",
              id |-> Uuid(0), mode |-> "direct", modelAId |-> model_info.id,
              userMessageId |-> loc.last_user_message_id[1],
              modelAMessageId |-> model_message_id,
              messages |-> Append(loc.arena_messages,
                              ArenaMessage(model_message_id, "assistant", "",
                                           loc.previous_message_id,
                                           <<model_info.id>>, Uuid(0))),
              modality |-> "chat"]

\* The roles and the contents of the messages of the builder runs.
MessageRoles == {"system", "user", "assistant", "tool"}

MessageContents ==
    { StrContent("hello"), StrContent(""),
      ListContent(<<ChatMessageContentPart("text", "a"),
                    ChatMessageContentPart("image_url", ""),
                    ChatMessageContentPart("text", ""),
                    ChatMessageContentPart("text", "b")>>) }

MessageSamples == {ChatMessage(r, c) : r \in MessageRoles, c \in MessageContents}

RECURSIVE MessageListsOf(_)
MessageListsOf(n) ==
    IF n = 0 THEN {<<>>}
    ELSE LET shorter == MessageListsOf(n - 1)
         IN  shorter \cup {Append(l, m) : l \in {x \in shorter : Len(x) = n - 1},
                                          m \in MessageSamples}

MessageLists == MessageListsOf(MaxMessages)

InitPayload ==
    /\ cookies = NewPool(1)
    /\ index = 0
    /\ pc = [p \in Procs |-> "idle"]
    /\ cookie = [p \in Procs |-> ""]
    /\ attempts = [p \in Procs |-> 0]
    /\ max_attempts = [p \in Procs |-> 0]
    /\ last_exc = [p \in Procs |-> <<>>]
    /\ result = [p \in Procs |-> NoResult]
    /\ pool0 = [p \in Procs |-> <<>>]
    /\ log = [p \in Procs |-> <<>>]
    /\ banned = {}
    /\ exc_in = NoExc
    /\ verdict = "unset"
    /\ made = cookies
    /\ lastOp = NoOp
    /\ window = <<>>
    /\ lock = 0
    /\ thread = [p \in Procs |-> IdleThread]
    /\ sse = [p \in Procs |-> NoStream]
    /\ messages \in MessageLists
    /\ payload = [state |-> "unset"]
    /\ payload_text = ""
    /\ parsed = [state |-> "unset"]
    /\ raw_lines = <<>>
    /\ consumed = [state |-> "unset"]
    /\ http = [p \in Procs |-> NoHttp]

\* One call of ArenaClient._build_payload(messages, model_name), model_name a
\* name of the registry as _resolve_model returns it.
Build ==
    /\ payload.state = "unset"
    /\ \E model_name \in DOMAIN MODEL_REGISTRY :
         payload' = BuildPayload(messages, model_name)
    /\ UNCHANGED <<messages, payload_text, parsed, raw_lines, consumed>>
    /\ UNCHANGED <<poolVars, reqVars, banVars, apiVars, lockVars, sseVars, httpVars>>

NextPayload == Build

SpecPayload == InitPayload /\ [][NextPayload]_vars

\* The run has an answer.
BuilderRan == payload.state # "unset"

\* The list holds a message whose role is r.
HasRole(msgs, r) == \E i \in 1..Len(msgs) : msgs[i].role = r

\* C25: for a non-empty list of messages with at least one of role user, the
\* builder returns a payload of exactly len(messages) + 1 nodes: the i-th node
\* carries the i-th message (its flattened content, its role with system
\* collapsed to user), and the last node is the assistant placeholder with
\* empty content and status pending.
C25_OneNodePerMessagePlusPlaceholder ==
    (BuilderRan /\ messages # <<>> /\ HasRole(messages, "user")) =>
        /\ payload.state = "built"
        /\ Len(payload.messages) = Len(messages) + 1
        /\ \A i \in 1..Len(messages) :
             /\ payload.messages[i].content = CoerceMessageContent(messages[i].content)
             /\ payload.messages[i].role =
                    (IF messages[i].role = "system" THEN "user" ELSE messages[i].role)
             /\ payload.messages[i].status = "pending"
        /\ LET last == payload.messages[Len(payload.messages)]
           IN  /\ last.role = "assistant"
               /\ last.content = ""
               /\ last.status = "pending"
               /\ last.id = payload.modelAMessageId

\* A conversation of a system, a user and an assistant message, the user's
\* content a list of parts, has been built into four nodes.
C25_Witness ==
    /\ payload.state = "built"
    /\ Len(messages) = 3
    /\ messages[1].role = "system"
    /\ messages[2].role = "user"
    /\ messages[2].content.kind = "list"
    /\ messages[3].role = "assistant"
    /\ Len(payload.messages) = 4
    /\ payload.messages[2].content = "a\nb"
    /\ payload.messages[4].content = ""

\* Every message of the list has one of the roles rs.
OnlyRoles(msgs, rs) == \A i \in 1..Len(msgs) : msgs[i].role \in rs

\* C26: for an empty list, or a list whose messages all have the role system
\* or assistant, the builder raises EmptyConversation and returns no payload.
C26_NoUserMessageIsRejected ==
    (BuilderRan /\ OnlyRoles(messages, {"system", "assistant"})) =>
        /\ payload.state = "raised"
        /\ payload.exc = EmptyConversation

-----------------------------------------------------------------------------
(* The HTTP boundary: server.chat_completions receives a request, the      *)
(* client resolves the model and builds the payload, runs the retry loop   *)
(* (aggregated, or opening a stream), and the handler answers with a       *)
(* status.                                                                 *)

\* The largest pool of the runs with the HTTP boundary.
MaxHttpCookies == 2

\* status.HTTP_502_BAD_GATEWAY
HTTP_502_BAD_GATEWAY == 502

\* What the framework answers when the handler raises something else than an
\* HTTPException.
HTTP_500_UNHANDLED == 500

\* Line 142: the message of the error for a model outside the registry.
UnsupportedModel(requested_model) ==
    ArenaAPIError("Model '" \o requested_model \o "' is not supported by this bridge.", None)

\* Lines 138-143: ArenaClient._resolve_model
ResolveModel(requested_model) ==
    LET key == Strip(requested_model)
        canonical == IF key \in DOMAIN MODEL_ALIASES THEN MODEL_ALIASES[key] ELSE key
    IN  IF canonical \notin DOMAIN MODEL_REGISTRY
        THEN [raised |-> TRUE, exc |-> UnsupportedModel(requested_model), value |-> ""]
        ELSE [raised |-> FALSE, exc |-> NoExc, value |-> canonical]

\* models.py: ChatCompletionRequest
ChatCompletionRequest(model, msgs, stream) ==
    [model |-> model, messages |-> msgs, stream |-> stream]

\* The model names and the conversations of the requests.
RequestModels ==
    { "gemini-2.5-pro", " gemini-2.5-pro\n", "gemini-2.5-pro-preview-05-06",
      "Gemini-2.5-Pro", "gemini 2.5 pro", "gpt-4", "" }

RequestMessages ==
    { <<>>,
      <<ChatMessage("user", StrContent("hello"))>>,
      <<ChatMessage("system", StrContent("hello"))>>,
      <<ChatMessage("assistant", StrContent("hello"))>>,
      <<ChatMessage("system", StrContent("be brief")),
        ChatMessage("assistant", StrContent("hello"))>>,
      <<ChatMessage("system", StrContent("be brief")),
        ChatMessage("user", StrContent("hello"))>> }

Requests ==
    { ChatCompletionRequest(m, msgs, st) :
        m \in RequestModels, msgs \in RequestMessages, st \in BOOLEAN }

InitRequest ==
    /\ \E n \in 1..MaxHttpCookies :
         /\ cookies = NewPool(n)
         /\ index \in 0..(n - 1)
    /\ pc = [p \in Procs |-> "idle"]
    /\ cookie = [p \in Procs |-> ""]
    /\ attempts = [p \in Procs |-> 0]
    /\ max_attempts = [p \in Procs |-> 0]
    /\ last_exc = [p \in Procs |-> <<>>]
    /\ result = [p \in Procs |-> NoResult]
    /\ pool0 = [p \in Procs |-> <<>>]
    /\ log = [p \in Procs |-> <<>>]
    /\ banned = {}
    /\ exc_in = NoExc
    /\ verdict = "unset"
    /\ made = cookies
    /\ lastOp = NoOp
    /\ window = <<>>
    /\ lock = 0
    /\ thread = [p \in Procs |-> IdleThread]
    /\ sse = [p \in Procs |-> NoStream]
    /\ NoPureRun
    /\ http = [p \in Procs |-> NoHttp]

\* server.py lines 46-53: the handler is called with a request, the first one
\* or the one after a request that has got its answer, and hands it to the
\* client; the locals of the call are fresh.
Receive(p) ==
    /\ http[p].phase \in {"idle", "responded"}
    /\ sse[p].state \in {"none", "finished", "failed", "cancelled"}
    /\ \E req \in Requests :
         http' = [http EXCEPT ![p] =
                    [NoHttp EXCEPT !.phase = "received", !.request = req,
                                   !.pool = cookies, !.cursor = index]]
    /\ pc' = [pc EXCEPT ![p] = "idle"]
    /\ result' = [result EXCEPT ![p] = NoResult]
    /\ log' = [log EXCEPT ![p] = <<>>]
    /\ UNCHANGED <<cookie, attempts, max_attempts, last_exc, pool0, banned>>
    /\ UNCHANGED <<poolVars, banVars, pureVars, apiVars, lockVars, sseVars>>

\* arena_client.py lines 77-78 and 108-109: _resolve_model, then
\* _build_payload; either raises its ArenaAPIError out of the client.
Admit(p) ==
    /\ http[p].phase = "received"
    /\ LET r == ResolveModel(http[p].request.model)
       IN  IF r.raised
           THEN http' = [http EXCEPT ![p].phase = "raised", ![p].exc = <<r.exc>>]
           ELSE LET b == BuildPayload(http[p].request.messages, r.value)
                IN  IF b.state = "raised"
                    THEN http' = [http EXCEPT ![p].phase = "raised", ![p].exc = <<b.exc>>]
                    ELSE http' = [http EXCEPT ![p].phase = "admitted"]
    /\ UNCHANGED <<poolVars, reqVars, banVars, pureVars, apiVars, lockVars, sseVars>>

\* arena_client.py lines 105 and 126: the client enters _with_cookies.
Serve(p) ==
    /\ http[p].phase = "admitted"
    /\ pc[p] = "idle"
    /\ Enter(p)

\* What the backend answers in the runs with the HTTP boundary: a text and
\* End, a 403, a 500, a text and then a usage-limit error frame, an error
\* frame that names no credential, no connection at all.
BoundaryRespIds == {1, 2, 4, 7, 8, 9}

\* The response of the attempt the request has just made.
LastResp(p) == log'[p][Len(log'[p])].resp

\* Line 105: _with_cookies(execute) makes an attempt.
CallExecute(p) ==
    /\ ~http[p].request.stream
    /\ Call(p)
    /\ LastResp(p) \in BoundaryRespIds

\* Line 126: _with_cookies(open_stream) makes an attempt.
CallOpenStream(p) ==
    /\ http[p].request.stream
    /\ OpenStream(p)
    /\ LastResp(p) \in BoundaryRespIds

\* server.py line 57: exc.status_code or status.HTTP_502_BAD_GATEWAY
StatusOf(exc) ==
    IF exc.status_code # None THEN exc.status_code ELSE HTTP_502_BAD_GATEWAY

\* server.py lines 52-58: the handler answers.  An ArenaAPIError becomes an
\* HTTPException with the status of line 57 and the error's message; a result
\* or an opened stream becomes the response; any other exception is left to
\* the framework.
Respond(p) ==
    /\ \/ http[p].phase = "raised"
       \/ http[p].phase = "admitted" /\ pc[p] = "done"
    /\ IF http[p].phase = "raised"
       THEN http' = [http EXCEPT ![p].phase = "responded",
                                 ![p].status = StatusOf(http[p].exc[1]),
                                 ![p].detail = http[p].exc[1].message]
       ELSE CASE result[p].kind = "return" ->
                   http' = [http EXCEPT ![p].phase = "responded", ![p].status = HTTP_OK]
              [] result[p].kind = "raise" ->
                   http' = [http EXCEPT ![p].phase = "responded",
                                        ![p].exc = <<result[p].exc>>,
                                        ![p].status = StatusOf(result[p].exc),
                                        ![p].detail = result[p].exc.message]
              [] OTHER ->
                   http' = [http EXCEPT ![p].phase = "responded",
                                        ![p].status = HTTP_500_UNHANDLED,
                                        ![p].detail = result[p].value]
    /\ UNCHANGED <<poolVars, reqVars, banVars, pureVars, apiVars, lockVars, sseVars>>

NextRequest ==
    \E p \in Sequential :
        \/ Receive(p)
        \/ Admit(p)
        \/ Serve(p)
        \/ Setup(p)
        \/ LoopTest(p)
        \/ Checkout(p)
        \/ CallExecute(p)
        \/ CallOpenStream(p)
        \/ Ban(p)
        \/ Recount(p)
        \/ Respond(p)
        \/ EmitChunk(p)
        \/ EmitDone(p)
        \/ EmitReturn(p)
        \/ Cancel(p)

SpecRequest == InitRequest /\ [][NextRequest]_vars

\* The name, trimmed and compared case-sensitively, is neither an alias nor a
\* name of the registry.
UnknownModel(model) ==
    Strip(model) \notin (DOMAIN MODEL_ALIASES \cup DOMAIN MODEL_REGISTRY)

\* The request has one of the shapes that are to be rejected.
BadShape(req) == UnknownModel(req.model) \/ ~HasRole(req.messages, "user")

\* C27: a request with an unknown model name or with a conversation without a
\* user message is past the client's admission only as a failed request: the
\* client raised an error, no backend attempt was made for it, the retry loop
\* was never entered, and the pool's list and cursor are as the handler found
\* them.
C27_BadShapeFailsBeforeCheckout ==
    \A p \in Sequential :
        (http[p].phase \notin {"idle", "received"} /\ BadShape(http[p].request)) =>
            /\ http[p].exc # <<>>
            /\ log[p] = <<>>
            /\ pc[p] = "idle"
            /\ cookies = http[p].pool
            /\ index = http[p].cursor

\* The error is one of the two raised for the shape of the request.
ShapeError(exc, req) == exc \in {UnsupportedModel(req.model), EmptyConversation}

\* C29: an ArenaAPIError answered at the HTTP boundary gets a 400-class status
\* when it is about the shape of the request (unsupported model, conversation
\* without a user message), else the status it carries, else 502.
C29_StatusOfAnsweredErrors ==
    \A p \in Sequential :
        (http[p].phase = "responded" /\ http[p].exc # <<>>) =>
            LET exc == http[p].exc[1]
            IN  IF ShapeError(exc, http[p].request)
                THEN http[p].status \in 400..499
                ELSE IF exc.status_code # None
                     THEN http[p].status = exc.status_code
                     ELSE http[p].status = HTTP_502_BAD_GATEWAY

-----------------------------------------------------------------------------
(* ArenaClient._parse_stream_payload and _unquote_text on strings, with    *)
(* json.loads for the documents the runs hold: one string, or one object   *)
(* whose values are strings, integers, true, false or null.  The escapes   *)
(* \b and \uXXXX and nested values are outside the model: no input holds   *)
(* one.                                                                    *)

\* s[i] as a string of one character, "" outside s.
CharOf(s, i) == IF i >= 1 /\ i <= Len(s) THEN SubSeq(s, i, i) ELSE ""

\* s[i - 1 : i - 1 + n]: the n characters from the i-th one, as far as s goes.
Slice(s, i, n) ==
    IF i > Len(s) \/ n <= 0 THEN "" ELSE SubSeq(s, i, Min(Len(s), i + n - 1))

\* s.startswith(prefix)
StartsWith(s, prefix) ==
    Len(s) >= Len(prefix) /\ SubSeq(s, 1, Len(prefix)) = prefix

\* s.find(c) + 1 for a character c: the place of its first occurrence, or 0.
RECURSIVE FindFrom(_, _, _)
FindFrom(s, c, i) ==
    IF i > Len(s) THEN 0
    ELSE IF SubSeq(s, i, i) = c THEN i
    ELSE FindFrom(s, c, i + 1)

\* json: the characters a string may not hold unescaped (strict mode).
JsonControl == {"\n", "\t", "\r", "\f"}

\* json: the characters skipped between tokens.
JsonSpace == {" ", "\t", "\n", "\r"}

\* json: what the character after a backslash stands for.
JsonEscapes ==
    [c \in {"\"", "\\", "/", "n", "t", "r", "f"} |->
        CASE c = "n" -> "\n" [] c = "t" -> "\t" [] c = "r" -> "\r"
          [] c = "f" -> "\f" [] OTHER -> c]

Digits == "0123456789"

\* json: the scan of a string from s[i], the character after its opening
\* quote; `next` is the place after the closing quote.
RECURSIVE JsonScanString(_, _, _)
JsonScanString(s, i, acc) ==
    LET c == CharOf(s, i)
    IN  IF c = "" \/ c \in JsonControl THEN [ok |-> FALSE, value |-> "", next |-> i]
        ELSE IF c = "\"" THEN [ok |-> TRUE, value |-> acc, next |-> i + 1]
        ELSE IF c = "\\"
             THEN IF CharOf(s, i + 1) \in DOMAIN JsonEscapes
                  THEN JsonScanString(s, i + 2, acc \o JsonEscapes[CharOf(s, i + 1)])
                  ELSE [ok |-> FALSE, value |-> "", next |-> i]
        ELSE JsonScanString(s, i + 1, acc \o c)

\* json: the first place at or after i that holds no space.
RECURSIVE JsonSkipSpace(_, _)
JsonSkipSpace(s, i) ==
    IF CharOf(s, i) \in JsonSpace THEN JsonSkipSpace(s, i + 1) ELSE i

\* json: the place after the digits that start at i.
RECURSIVE JsonSkipDigits(_, _)
JsonSkipDigits(s, i) ==
    IF CharOf(s, i) # "" /\ Contains(Digits, CharOf(s, i))
    THEN JsonSkipDigits(s, i + 1) ELSE i

\* A JSON value as Python holds it: a str, an int, True, False or None.
JsonValue(type, text) == [type |-> type, text |-> text]
JsonNone == JsonValue("None", "")

\* json: the scan of one value from s[i].
JsonScanValue(s, i) ==
    LET c == CharOf(s, i)
        bad == [ok |-> FALSE, value |-> JsonNone, next |-> i]
    IN  IF c = "\""
        THEN LET r == JsonScanString(s, i + 1, "")
             IN  [ok |-> r.ok, value |-> JsonValue("str", r.value), next |-> r.next]
        ELSE IF Slice(s, i, 4) = "null"
        THEN [ok |-> TRUE, value |-> JsonNone, next |-> i + 4]
        ELSE IF Slice(s, i, 4) = "true"
        THEN [ok |-> TRUE, value |-> JsonValue("bool", "True"), next |-> i + 4]
        ELSE IF Slice(s, i, 5) = "false"
        THEN [ok |-> TRUE, value |-> JsonValue("bool", "False"), next |-> i + 5]
        ELSE IF c # "" /\ Contains(Digits, c)
        THEN LET j == JsonSkipDigits(s, i)
             IN  IF c = "0" /\ j > i + 1 THEN bad
                 ELSE [ok |-> TRUE, value |-> JsonValue("int", SubSeq(s, i, j - 1)),
                       next |-> j]
        ELSE bad

\* json: the members of an object from s[i], the place of a key; fields is
\* the list of the members read so far.
RECURSIVE JsonScanMembers(_, _, _)
JsonScanMembers(s, i, fields) ==
    LET bad == [ok |-> FALSE, fields |-> <<>>, next |-> i]
    IN  IF CharOf(s, i) # "\"" THEN bad
        ELSE LET k == JsonScanString(s, i + 1, "")
                 colon == JsonSkipSpace(s, k.next)
             IN  IF ~k.ok \/ CharOf(s, colon) # ":" THEN bad
                 ELSE LET v == JsonScanValue(s, JsonSkipSpace(s, colon + 1))
                          after == JsonSkipSpace(s, v.next)
                          read == Append(fields, [key |-> k.value, value |-> v.value])
                      IN  IF ~v.ok THEN bad
                          ELSE IF CharOf(s, after) = "}"
                          THEN [ok |-> TRUE, fields |-> read, next |-> after + 1]
                          ELSE IF CharOf(s, after) = ","
                          THEN JsonScanMembers(s, JsonSkipSpace(s, after + 1), read)
                          ELSE bad

\* json.loads(s) for s that starts with "{": ok is FALSE for JSONDecodeError.
JsonLoadsObject(s) ==
    LET i == JsonSkipSpace(s, 2)
        r == IF CharOf(s, i) = "}"
             THEN [ok |-> TRUE, fields |-> <<>>, next |-> i + 1]
             ELSE JsonScanMembers(s, i, <<>>)
    IN  [ok |-> r.ok /\ JsonSkipSpace(s, r.next) > Len(s), fields |-> r.fields]

\* json.loads(s) for s that starts with a double quote.
JsonLoadsString(s) ==
    LET r == JsonScanString(s, 2, "")
    IN  [ok |-> r.ok /\ JsonSkipSpace(s, r.next) > Len(s), value |-> r.value]

\* dict.get(key): the value of the last member of that name, else None.
RECURSIVE DictGet(_, _)
DictGet(fields, key) ==
    IF fields = <<>> THEN JsonNone
    ELSE IF fields[Len(fields)].key = key THEN fields[Len(fields)].value
    ELSE DictGet(SubSeq(fields, 1, Len(fields) - 1), key)

\* bool(v)
Truthy(v) ==
    CASE v.type = "str" -> v.text # ""
      [] v.type = "int" -> v.text # "0"
      [] v.type = "bool" -> v.text = "True"
      [] OTHER -> FALSE

\* str(v) for a value json.loads gave.
PyStr(v) == v.text

\* Lines 435-442: ArenaClient._unquote_text
UnquoteText(value) ==
    IF Len(value) >= 2 /\ CharOf(value, 1) = "\"" /\ CharOf(value, Len(value)) = "\""
    THEN LET r == JsonLoadsString(value)
         IN  IF r.ok THEN r.value ELSE SubSeq(value, 2, Len(value) - 1)
    ELSE value

\* A parser that takes a frame it cannot read for an error of the backend.
ParseStreamPayloadStrict(text) ==
    IF text = "[DONE]" THEN End
    ELSE IF StartsWith(text, "{")
    THEN LET data == JsonLoadsObject(text)
             first == DictGet(data.fields, "message")
             message == IF Truthy(first) THEN first ELSE DictGet(data.fields, "error")
         IN  IF ~data.ok THEN ErrorFrame("Invalid stream payload")
             ELSE IF Truthy(message) THEN ErrorFrame(PyStr(message))
             ELSE Skip
    ELSE LET colon == FindFrom(text, ":", 1)
         IN  IF colon = 0 THEN ErrorFrame("Unexpected stream frame")
             ELSE LET prefix == Strip(Slice(text, 1, colon - 1))
                      content == Strip(Slice(text, colon + 1, Len(text) - colon))
                  IN  IF prefix = "a0" THEN Text(UnquoteText(content))
                      ELSE IF prefix \in {"ae", "ad"} THEN End
                      ELSE IF prefix \in {"af", "cookie"} THEN Skip
                      ELSE ErrorFrame("Unknown stream prefix")

\* Lines 402-433: ArenaClient._parse_stream_payload; the frame it returns is
\* Text(t) for SSEChunk(text=t, continue_stream=True), End for
\* SSEChunk(text=None, continue_stream=False), Skip for None, and
\* ErrorFrame(m) when it raises ArenaAPIError(m).
ParseStreamPayload(text) ==
    IF text = "[DONE]" THEN End
    ELSE IF StartsWith(text, "{")
    THEN LET data == JsonLoadsObject(text)
             first == DictGet(data.fields, "message")
             message == IF Truthy(first) THEN first ELSE DictGet(data.fields, "error")
         IN  IF ~data.ok THEN Skip
             ELSE IF Truthy(message) THEN ErrorFrame(PyStr(message))
             ELSE Skip
    ELSE LET colon == FindFrom(text, ":", 1)
         IN  IF colon = 0 THEN Skip
             ELSE LET prefix == Strip(Slice(text, 1, colon - 1))
                      content == Strip(Slice(text, colon + 1, Len(text) - colon))
                  IN  IF prefix = "a0" THEN Text(UnquoteText(content))
                      ELSE IF prefix \in {"ae", "ad"} THEN End
                      ELSE Skip

\* Lines 323-330: what _stream_payload hands to the parser for one line of the
\* response: <<>> when the line is skipped, else <<payload_text>>.
PayloadTextOf(raw_line) ==
    LET line == Strip(raw_line)
    IN  IF line = "" \/ ~StartsWith(line, "data:") THEN <<>>
        ELSE LET text == Strip(Slice(line, 6, Len(line) - 5))
             IN  IF text = "" THEN <<>> ELSE <<text>>

\* json.dumps(t) for the texts of the runs: the double-quoted form of a text,
\* as the backend sends it.
RECURSIVE JsonEscape(_)
JsonEscape(t) ==
    IF t = "" THEN ""
    ELSE LET c == SubSeq(t, 1, 1)
             e == CASE c = "\"" -> "\\\"" [] c = "\\" -> "\\\\" [] c = "\n" -> "\\n"
                    [] c = "\t" -> "\\t" [] c = "\r" -> "\\r" [] c = "\f" -> "\\f"
                    [] OTHER -> c
         IN  e \o JsonEscape(SubSeq(t, 2, Len(t)))

JsonDumps(t) == "\"" \o JsonEscape(t) \o "\""

\* The texts the backend sends in the parser runs.
SampleTexts ==
    { "hello", "Hi", " there", "a b", "", "say \"hi\"", "\"quoted\"", "a\\b",
      "line\nbreak", "tab\there", "x:y", "{", "[DONE]", "\"" }

\* The texts of the error frames.
SampleErrors == {"boom", "Usage limit reached", "", "say \"no\""}

\* The frames of the parser runs, as the backend writes them after "data:".
SampleFrames ==
    {"[DONE]", "[DONE] ", "[done]", "hello", "", "zz:1", ":", "a0", "{", "{}",
     "{\"ok\":true}", "{\"error\":null}", "{\"error\":7}", "{\"error\":0}",
     "{\"error\":\"boom\"", "{\"error\":\"boom\"} x", "{error:\"boom\"}",
     "{\"message\":\"\",\"error\":false}", "{ \"error\" : \"boom\" , \"code\" : 429 }"}
    \cup {pre \o JsonDumps(t) : pre \in {"a0:", "a0: ", "a0 :"}, t \in SampleTexts}
    \cup {pre \o t : pre \in {"a0:", "a0 :"}, t \in {u \in SampleTexts : ~Contains(u, "\n")}}
    \cup {"a0:\"a\"b\"", "a0:\"a\\\"", "a0:\"a\tb\"", "a0:\"x\" "}
    \cup {pre \o c : pre \in {"ae", "ad", "af", "cookie", "a1", "A0"},
                     c \in {":", ":{\"finishReason\":\"stop\"}", ":\"x\"", ": 1"}}
    \cup {"{\"error\":" \o JsonDumps(e) \o "}" : e \in SampleErrors}
    \cup {"{\"message\":" \o JsonDumps(e) \o "}" : e \in SampleErrors}
    \cup {"{\"message\":" \o JsonDumps(m) \o ",\"error\":" \o JsonDumps(e) \o "}" :
            m \in SampleErrors, e \in SampleErrors}

\* The lines response.iter_lines() gives.
RawLines ==
    {pre \o f : pre \in {"data:", "data: ", " data:\t"}, f \in SampleFrames}
    \cup {"", "data:", ": keep-alive", "event: message", "a0:\"hello\""}

\* The strings that reach _parse_stream_payload.
ParserInputs == {PayloadTextOf(l)[1] : l \in {x \in RawLines : PayloadTextOf(x) # <<>>}}

InitParser ==
    /\ cookies = NewPool(1)
    /\ index = 0
    /\ pc = [p \in Procs |-> "idle"]
    /\ cookie = [p \in Procs |-> ""]
    /\ attempts = [p \in Procs |-> 0]
    /\ max_attempts = [p \in Procs |-> 0]
    /\ last_exc = [p \in Procs |-> <<>>]
    /\ result = [p \in Procs |-> NoResult]
    /\ pool0 = [p \in Procs |-> <<>>]
    /\ log = [p \in Procs |-> <<>>]
    /\ banned = {}
    /\ exc_in = NoExc
    /\ verdict = "unset"
    /\ made = cookies
    /\ lastOp = NoOp
    /\ window = <<>>
    /\ lock = 0
    /\ thread = [p \in Procs |-> IdleThread]
    /\ sse = [p \in Procs |-> NoStream]
    /\ messages = <<>>
    /\ payload = [state |-> "unset"]
    /\ payload_text \in ParserInputs
    /\ parsed = [state |-> "unset"]
    /\ raw_lines = <<>>
    /\ consumed = [state |-> "unset"]
    /\ http = [p \in Procs |-> NoHttp]

\* One call of ArenaClient._parse_stream_payload(payload_text).
Parse ==
    /\ parsed.state = "unset"
    /\ parsed' = [state |-> "parsed", event |-> ParseStreamPayload(payload_text)]
    /\ UNCHANGED <<messages, payload, payload_text, raw_lines, consumed>>
    /\ UNCHANGED <<poolVars, reqVars, banVars, apiVars, lockVars, sseVars, httpVars>>

NextParser == Parse

SpecParser == InitParser /\ [][NextParser]_vars

\* What stands before the first colon of the frame, "" when there is none.
PrefixOf(frame) ==
    IF FindFrom(frame, ":", 1) = 0 THEN ""
    ELSE Slice(frame, 1, FindFrom(frame, ":", 1) - 1)

\* The frame is a JSON object that has a member of that name.
HasField(frame, name) ==
    /\ StartsWith(frame, "{")
    /\ JsonLoadsObject(frame).ok
    /\ \E i \in 1..Len(JsonLoadsObject(frame).fields) :
           JsonLoadsObject(frame).fields[i].key = name

\* C28: the parser maps a stripped frame by these rules: [DONE] gives End; a
\* frame a0:<content> gives Text, the same Text for the double-quoted form and
\* for the unquoted form of a text; prefix ae or ad gives End; prefix af or
\* cookie gives Ignorable; a JSON object with an error field gives a
\* ProxyError that carries the text of that field.
C28_ParserRules ==
    parsed.state = "parsed" =>
        /\ payload_text = "[DONE]" => parsed.event = End
        /\ \A t \in SampleTexts :
             /\ payload_text = "a0:" \o JsonDumps(t) => parsed.event = Text(t)
             /\ payload_text = "a0:" \o t => parsed.event = Text(t)
        /\ PrefixOf(payload_text) \in {"ae", "ad"} => parsed.event = End
        /\ PrefixOf(payload_text) \in {"af", "cookie"} => parsed.event = Skip
        /\ HasField(payload_text, "error") =>
             parsed.event =
                 ErrorFrame(PyStr(DictGet(JsonLoadsObject(payload_text).fields, "error")))

-----------------------------------------------------------------------------
(* Concurrent requests: the handlers of Procs run _with_cookies on one     *)
(* pool, each call of a CookiePool method being one step (the pool's lock  *)
(* makes it so), the steps of different requests interleaved at will.      *)

\* The largest pool of the concurrent runs.
MaxConcCookies == 2

\* What the backend answers in the concurrent runs: a text and End, a 403,
\* a 500.
ConcRespIds == {1, 2, 4}

InitConc ==
    /\ \E n \in 1..MaxConcCookies :
         /\ cookies = NewPool(n)
         /\ index \in 0..(n - 1)
    /\ pc = [p \in Procs |-> "idle"]
    /\ cookie = [p \in Procs |-> ""]
    /\ attempts = [p \in Procs |-> 0]
    /\ max_attempts = [p \in Procs |-> 0]
    /\ last_exc = [p \in Procs |-> <<>>]
    /\ result = [p \in Procs |-> NoResult]
    /\ pool0 = [p \in Procs |-> <<>>]
    /\ log = [p \in Procs |-> <<>>]
    /\ banned = {}
    /\ exc_in = NoExc
    /\ verdict = "unset"
    /\ made = cookies
    /\ lastOp = NoOp
    /\ window = <<>>
    /\ lock = 0
    /\ thread = [p \in Procs |-> IdleThread]
    /\ sse = [p \in Procs |-> NoStream]
    /\ NoPureRun
    /\ http = [p \in Procs |-> NoHttp]

\* Lines 156-160 and 168 in a concurrent run.
CallConc(p) ==
    /\ pc[p] = "call"
    /\ \E i \in ConcRespIds : Answer(p, i)

NextConc ==
    \E p \in Procs :
        \/ Enter(p)
        \/ Setup(p)
        \/ LoopTest(p)
        \/ Checkout(p)
        \/ CallConc(p)
        \/ Ban(p)
        \/ Recount(p)

SpecConc == InitConc /\ [][NextConc]_vars

\* C30: with concurrent requests on one pool, no request calls next() on an
\* empty pool and none ends with an exception other than an ArenaAPIError: a
\* request that has passed the size check and finds the pool emptied by
\* another request's ban ends with the error for exhausted credentials.
C30_NoCheckoutFromEmptyPool ==
    /\ \A p \in Procs : result[p].kind # "uncaught"
    /\ \A p \in Procs :
         (pc[p] = "done" /\ result[p].kind = "raise" /\ log[p] = <<>> /\ pool0[p] # <<>>)
             => result[p].exc = Exhausted

-----------------------------------------------------------------------------
(* Streaming requests against aggregated ones (SpecStream).                *)

\* C31: a streaming request whose backend fails before any packet has been
\* yielded to the caller fails like an aggregated one, inside the retry loop
\* and before the stream is handed over: a stream that fails after the
\* handover has yielded at least one packet.
C31_NoStreamErrorBeforeFirstPacket ==
    \A p \in Sequential : sse[p].state = "failed" => Out(p) # <<>>

-----------------------------------------------------------------------------
(* Rotation across a ban (SpecPool).                                       *)

\* The cookie the cursor designates: the one the next call of next() returns.
Designated(cs, idx) == cs[idx + 1]

\* The cookie after position i of a pool, in rotation order.
SuccessorOf(cs, i) == cs[(i % Len(cs)) + 1]

\* C32: ban(c) does not disturb the rotation of the cookies that remain: if
\* the cursor designated d # c before the call, the first next() after it
\* returns d; if it designated c, the first next() returns the successor of c
\* in rotation order.
C32_BanKeepsRotation ==
    (/\ lastOp.op = "ban"
     /\ lastOp.arg \in Range(lastOp.before)
     /\ cookies # <<>>)
    => LET d == Designated(lastOp.before, lastOp.cursor)
           first == PoolNext(cookies, index).value
       IN  IF d # lastOp.arg THEN first = d
           ELSE first = SuccessorOf(lastOp.before, lastOp.cursor + 1)

-----------------------------------------------------------------------------
(* The requests of _with_cookies with the pool's lock in view: every call  *)
(* of a CookiePool method is entered by taking CookiePool._lock and runs   *)
(* statement by statement; func(cookie), the backend call, is a step of    *)
(* its own that may take any time.                                         *)

\* The places of _with_cookies that call a CookiePool method.
PoolCallSites == {"init", "loop", "checkout", "ban", "recount"}

\* The method called there: len() at lines 148 and 153 and 165, next() at
\* line 155, ban(cookie) at line 162.
PoolCallAt(at) ==
    CASE at = "checkout" -> "next"
      [] at = "ban" -> "ban"
      [] OTHER -> "len"

\* Lines 145-147 of one request per thread; len() waits for the lock.
Arrive(p) ==
    /\ pc[p] = "idle"
    /\ lock = 0
    /\ Enter(p)

\* The request reaches a CookiePool call and enters its `with self._lock:`.
EnterPool(p) ==
    /\ pc[p] \in PoolCallSites
    /\ pc[p] = "loop" => attempts[p] < max_attempts[p]
    /\ Acquire(p, PoolCallAt(pc[p]), IF pc[p] = "ban" THEN cookie[p] ELSE "")

\* Line 152 when the attempts are used up: the loop is left with no pool call.
LoopEnd(p) ==
    /\ attempts[p] >= max_attempts[p]
    /\ thread[p].at = "idle"
    /\ LoopTest(p)

\* cookie_pool.py line 30 inside line 155.
NextReadIn(p) ==
    IF index < Len(cookies)
    THEN NextRead(p)
    ELSE /\ thread[p].at = "next_read"
         /\ Release(p, "next", "IndexError", "", 0)
         /\ pc' = [pc EXCEPT ![p] = "done"]
         /\ result' = [result EXCEPT ![p] = Uncaught("IndexError")]
         /\ UNCHANGED <<cookie, attempts, max_attempts, last_exc, pool0, log, banned>>
         /\ UNCHANGED <<poolVars, made, window, banVars, pureVars, httpVars, sseVars>>

\* cookie_pool.py line 32 and line 155: next() returns and the cookie is bound.
NextReturnIn(p) ==
    /\ thread[p].at = "next_return"
    /\ Release(p, "next", "", thread[p].value, 0)
    /\ window' = LastN(Append(window, thread[p].value), Len(cookies))
    /\ cookie' = [cookie EXCEPT ![p] = thread[p].value]
    /\ pc' = [pc EXCEPT ![p] = "call"]
    /\ UNCHANGED <<attempts, max_attempts, last_exc, result, pool0, log, banned>>
    /\ UNCHANGED <<poolVars, made, banVars, pureVars, httpVars, sseVars>>

\* cookie_pool.py lines 39-41 inside line 162; the RuntimeError is caught at
\* line 163 and breaks out of the loop to lines 171-173.
BanEmptyIn(p) ==
    IF Len(cookies) # 0
    THEN BanEmpty(p)
    ELSE /\ thread[p].at = "ban_empty"
         /\ Release(p, "ban", "RuntimeError", "", 0)
         /\ banned' = banned \cup {thread[p].arg}
         /\ window' = <<>>
         /\ pc' = [pc EXCEPT ![p] = "done"]
         /\ result' = [result EXCEPT ![p] = AfterLoop(last_exc[p])]
         /\ UNCHANGED <<cookie, attempts, max_attempts, last_exc, pool0, log>>
         /\ UNCHANGED <<poolVars, made, banVars, pureVars, httpVars, sseVars>>

\* ban() returns to line 165.
BanReturnIn(p) ==
    /\ thread[p].at = "ban_return"
    /\ Release(p, "ban", "", "", 0)
    /\ banned' = banned \cup {thread[p].arg}
    /\ window' = <<>>
    /\ pc' = [pc EXCEPT ![p] = "recount"]
    /\ UNCHANGED <<cookie, attempts, max_attempts, last_exc, result, pool0, log>>
    /\ UNCHANGED <<poolVars, made, banVars, pureVars, httpVars, sseVars>>

\* A loop whose handler continues without counting the attempt.
LenReadInNoCount(p) ==
    /\ thread[p].at = "len_read"
    /\ Release(p, "len", "", "", PoolLen(cookies))
    /\ CASE pc[p] = "init" ->
              /\ max_attempts' = [max_attempts EXCEPT ![p] = MaxAttempts(PoolLen(cookies))]
              /\ attempts' = [attempts EXCEPT ![p] = 0]
              /\ last_exc' = [last_exc EXCEPT ![p] = <<>>]
              /\ pc' = [pc EXCEPT ![p] = "loop"]
              /\ UNCHANGED result
         [] pc[p] = "loop" ->
              /\ IF PoolLen(cookies) # 0
                 THEN /\ pc' = [pc EXCEPT ![p] = "checkout"]
                      /\ UNCHANGED result
                 ELSE /\ pc' = [pc EXCEPT ![p] = "done"]
                      /\ result' = [result EXCEPT ![p] = AfterLoop(last_exc[p])]
              /\ UNCHANGED <<attempts, max_attempts, last_exc>>
         [] OTHER ->
              /\ max_attempts' = [max_attempts EXCEPT ![p] = MaxAttempts(PoolLen(cookies))]
              /\ pc' = [pc EXCEPT ![p] = "loop"]
              /\ UNCHANGED <<attempts, last_exc, result>>
    /\ UNCHANGED <<cookie, pool0, log, banned>>
    /\ UNCHANGED <<poolVars, made, window, banVars, pureVars, httpVars, sseVars>>

\* cookie_pool.py line 46: len() returns to line 148, 153 or 165.
LenReadIn(p) ==
    /\ thread[p].at = "len_read"
    /\ Release(p, "len", "", "", PoolLen(cookies))
    /\ CASE pc[p] = "init" ->
              /\ max_attempts' = [max_attempts EXCEPT ![p] = MaxAttempts(PoolLen(cookies))]
              /\ attempts' = [attempts EXCEPT ![p] = 0]
              /\ last_exc' = [last_exc EXCEPT ![p] = <<>>]
              /\ pc' = [pc EXCEPT ![p] = "loop"]
              /\ UNCHANGED result
         [] pc[p] = "loop" ->
              /\ IF PoolLen(cookies) # 0
                 THEN /\ pc' = [pc EXCEPT ![p] = "checkout"]
                      /\ UNCHANGED result
                 ELSE /\ pc' = [pc EXCEPT ![p] = "done"]
                      /\ result' = [result EXCEPT ![p] = AfterLoop(last_exc[p])]
              /\ UNCHANGED <<attempts, max_attempts, last_exc>>
         [] OTHER ->
              /\ max_attempts' = [max_attempts EXCEPT ![p] = MaxAttempts(PoolLen(cookies))]
              /\ attempts' = [attempts EXCEPT ![p] = attempts[p] + 1]
              /\ pc' = [pc EXCEPT ![p] = "loop"]
              /\ UNCHANGED <<last_exc, result>>
    /\ UNCHANGED <<cookie, pool0, log, banned>>
    /\ UNCHANGED <<poolVars, made, window, banVars, pureVars, httpVars, sseVars>>

\* The steps of thread p inside a CookiePool method or entering one.
PoolStep(p) ==
    \/ EnterPool(p)
    \/ NextReadIn(p)
    \/ NextAdvance(p)
    \/ NextReturnIn(p)
    \/ BanTest(p)
    \/ BanFilter(p)
    \/ BanEmptyIn(p)
    \/ BanMod(p)
    \/ BanReturnIn(p)
    \/ LenReadIn(p)

\* Line 157: func(cookie), the backend call, comes back.
BackendCall(p) ==
    /\ thread[p].at = "idle"
    /\ CallConc(p)

NextIO ==
    \E p \in Procs :
        \/ Arrive(p)
        \/ LoopEnd(p)
        \/ PoolStep(p)
        \/ BackendCall(p)

\* Every thread inside or at a CookiePool method is scheduled; nothing
\* obliges the backend to answer.
SpecIO ==
    /\ InitConc
    /\ [][NextIO]_vars
    /\ \A p \in Procs : WF_vars(PoolStep(p) \/ LoopEnd(p))

\* C33: the pool's lock is held only inside the pool's own operations and
\* never across a backend call: a thread that holds it is inside a CookiePool
\* method, a request in its backend call holds nothing, and, whether or not
\* the backend ever answers the other request, a request that has reached
\* next() or ban() gets through it.
C33_LockNeverHeldAcrossBackendCall ==
    /\ [](\A p \in Procs :
            /\ lock = p => thread[p].at # "idle"
            /\ pc[p] = "call" => (thread[p].at = "idle" /\ lock # p))
    /\ \A p \in Procs : (pc[p] = "checkout") ~> (pc[p] # "checkout")
    /\ \A p \in Procs : (pc[p] = "ban") ~> (pc[p] # "ban")

\* Request 1 is still in its first backend call, on a cookie that request 2
\* has meanwhile checked out and banned.
C33_Witness ==
    /\ pc[1] = "call"
    /\ log[1] = <<>>
    /\ cookie[1] \notin Range(cookies)
    /\ pc[2] = "done"
    /\ Len(log[2]) = 2
    /\ lock = 0

\* The same requests when every thread is scheduled and the backend answers
\* every call, with a response or with an error.
SpecTerm ==
    /\ InitConc
    /\ [][NextIO]_vars
    /\ \A p \in Procs : WF_vars(PoolStep(p) \/ LoopEnd(p) \/ BackendCall(p))

\* C34: the retry loop terminates for every backend behaviour and every
\* interleaving: a request that has entered _with_cookies returns or raises,
\* its attempts never exceed twice the size of the pool it started with, and
\* every pass of the loop that comes back to the loop test has counted one
\* more attempt.
C34_RetryLoopTerminates ==
    /\ \A p \in Procs : (pc[p] = "init") ~> (pc[p] = "done" /\ result[p] # NoResult)
    /\ [](\A p \in Procs :
            pc[p] \notin {"idle", "init"} =>
                /\ attempts[p] <= max_attempts[p]
                /\ max_attempts[p] <= 2 * Len(pool0[p])
                /\ Len(log[p]) <= attempts[p] + 1)
    /\ [][\A p \in Procs :
            (pc[p] \notin {"init", "loop"} /\ pc'[p] = "loop")
                => attempts'[p] = attempts[p] + 1]_vars

\* Both requests are over, the first after a retry.
C34_Witness ==
    /\ pc[1] = "done"
    /\ pc[2] = "done"
    /\ Len(log[1]) = 2
    /\ Len(log[2]) >= 1
    /\ result[1].kind = "raise"

-----------------------------------------------------------------------------
(* Aggregated requests that are retried (Spec).                            *)

\* The strings of a sequence, joined.
RECURSIVE JoinStrings(_)
JoinStrings(texts) ==
    IF texts = <<>> THEN "" ELSE Head(texts) \o JoinStrings(Tail(texts))

\* The response of the last attempt of p.
LastAttempt(p) == Responses[log[p][Len(log[p])].resp]

\* C35: an aggregated request that is retried after a credential failure in
\* the middle of a stream returns the Text fragments of its last attempt, in
\* order, and nothing of the attempts before it.
C35_RetryReturnsOnlyFinalAttempt ==
    \A p \in Sequential :
        (/\ Finished(p)
         /\ result[p].kind = "return"
         /\ Len(log[p]) >= 2)
        => result[p].value = JoinStrings(TextsRead(LastAttempt(p).frames))

\* A first attempt that read "Hi" before its credential error, then an
\* attempt that succeeds with other fragments.
C35_Witness ==
    /\ Finished(1)
    /\ result[1].kind = "return"
    /\ Len(log[1]) = 2
    /\ TextsRead(Responses[log[1][1].resp].frames) = <<"Hi">>
    /\ result[1].value = "abc"

-----------------------------------------------------------------------------
(* The readers of a 200 response (SpecReader): the lines of the body go    *)
(* through _stream_payload and _parse_stream_payload to the loop of        *)
(* execute (aggregated) or to open_stream and _emit_sse_events (streamed). *)

MaxLines == 4

\* The lines a body is made of: Text fragments, one of them empty, an End
\* frame, an in-band credential error, and frames that cannot be parsed.
BodyLines ==
    { "data: a0:\"Hi\"", "data: a0:\" there\"", "data: a0:\"\"",
      "data: ad:{\"finishReason\":\"stop\"}",
      "data: {\"error\":\"Usage limit reached\"}",
      "data: {bad json", "data: zz:1", "data: nocolon" }

RECURSIVE BodiesOf(_)
BodiesOf(n) ==
    IF n = 0 THEN {<<>>}
    ELSE {Append(b, l) : b \in BodiesOf(n - 1), l \in BodyLines}

Bodies == UNION {BodiesOf(n) : n \in 0..MaxLines}

\* Lines 321-332 for one line: no frame when the line is skipped before the
\* parser, else what _parse_stream_payload makes of it.
FrameOfLine ==
    [l \in BodyLines |->
        LET t == PayloadTextOf(l)
        IN  IF t = <<>> THEN <<>> ELSE <<ParseStreamPayload(t[1])>>]

\* The frames of a body, line by line.
RECURSIVE FramesOf(_)
FramesOf(lines) ==
    IF lines = <<>> THEN <<>>
    ELSE FrameOfLine[Head(lines)] \o FramesOf(Tail(lines))

\* The consumer of a streaming response runs the generator of
\* _emit_sse_events to its end: the packets it gets, and the error if the
\* generator raises.
RECURSIVE Drain(_, _, _, _)
Drain(pre, lines, role_sent, out) ==
    LET e == EmitResume(pre, lines, role_sent)
    IN  CASE e.event = "content" -> Drain(e.pre, e.lines, TRUE, Append(out, e.packet))
          [] e.event = "final" -> [out |-> out \o <<e.packet, DonePacket>>, exc |-> <<>>]
          [] e.event = "exhausted" -> [out |-> Append(out, DonePacket), exc |-> <<>>]
          [] OTHER -> [out |-> out, exc |-> <<e.exc>>]

\* What a reader of a body has to show: what the caller gets, the error
\* raised, whether the error's handler bans the cookie and whether it retries.
Reading(mode, out, exc, handled, in_loop) ==
    [state |-> mode, out |-> out, exc |-> exc,
     ban |-> handled = "ban", retry |-> handled = "ban" /\ in_loop]

\* Lines 80-103: execute(cookie) inside _with_cookies.
AggregatedReading(x) ==
    IF x.ok THEN Reading("aggregated", <<x.content>>, <<>>, "none", TRUE)
    ELSE Reading("aggregated", <<>>, <<x.exc>>, Handler(x.exc), TRUE)

\* Lines 339-400 run to the end on an opened stream, outside _with_cookies.
DrainedReading(d) ==
    IF d.exc = <<>> THEN Reading("streamed", d.out, <<>>, "none", FALSE)
    ELSE Reading("streamed", d.out, d.exc, Handler(d.exc[1]), FALSE)

\* Lines 111-125: open_stream(cookie) inside _with_cookies, then the
\* generator handed to the caller.
StreamedReading(o) ==
    IF o.ok THEN DrainedReading(Drain(o.preloaded, o.rest, FALSE, <<>>))
    ELSE Reading("streamed", <<>>, <<o.exc>>, Handler(o.exc), TRUE)

\* One attempt on response r, aggregated or streamed.
ConsumeResponse(mode, r) ==
    IF mode = "aggregated" THEN AggregatedReading(Execute(r))
    ELSE StreamedReading(OpenStreamOn(r))

\* One attempt on a body of lines.
Consume(mode, lines) == ConsumeResponse(mode, Stream(FramesOf(lines)))

InitReader ==
    /\ cookies = NewPool(1)
    /\ index = 0
    /\ pc = [p \in Procs |-> "idle"]
    /\ cookie = [p \in Procs |-> ""]
    /\ attempts = [p \in Procs |-> 0]
    /\ max_attempts = [p \in Procs |-> 0]
    /\ last_exc = [p \in Procs |-> <<>>]
    /\ result = [p \in Procs |-> NoResult]
    /\ pool0 = [p \in Procs |-> <<>>]
    /\ log = [p \in Procs |-> <<>>]
    /\ banned = {}
    /\ exc_in = NoExc
    /\ verdict = "unset"
    /\ made = cookies
    /\ lastOp = NoOp
    /\ window = <<>>
    /\ lock = 0
    /\ thread = [p \in Procs |-> IdleThread]
    /\ sse = [p \in Procs |-> NoStream]
    /\ messages = <<>>
    /\ payload = [state |-> "unset"]
    /\ payload_text = ""
    /\ parsed = [state |-> "unset"]
    /\ raw_lines \in Bodies
    /\ consumed = [state |-> "unset"]
    /\ http = [p \in Procs |-> NoHttp]

\* chat_completion's execute reads the body.
ReadAggregated ==
    /\ consumed.state = "unset"
    /\ consumed' = Consume("aggregated", raw_lines)
    /\ UNCHANGED <<messages, payload, payload_text, parsed, raw_lines>>
    /\ UNCHANGED <<poolVars, reqVars, banVars, apiVars, lockVars, sseVars, httpVars>>

\* chat_completion_stream's open_stream and the consumer of its generator
\* read the body.
ReadStreamed ==
    /\ consumed.state = "unset"
    /\ consumed' = Consume("streamed", raw_lines)
    /\ UNCHANGED <<messages, payload, payload_text, parsed, raw_lines>>
    /\ UNCHANGED <<poolVars, reqVars, banVars, apiVars, lockVars, sseVars, httpVars>>

NextReader == ReadAggregated \/ ReadStreamed

SpecReader == InitReader /\ [][NextReader]_vars

\* The frame a line of the body carries, "" when it carries none.
FrameText(l) == IF PayloadTextOf(l) = <<>> THEN "" ELSE PayloadTextOf(l)[1]

\* The prefixes the backend's protocol knows.
KnownPrefixes == {"a0", "ae", "ad", "af", "cookie"}

\* A frame that cannot be read: malformed JSON behind '{', no colon, or a
\* prefix the protocol does not know.
Unparseable(frame) ==
    /\ frame \notin {"", "[DONE]"}
    /\ IF StartsWith(frame, "{") THEN ~JsonLoadsObject(frame).ok
       ELSE \/ FindFrom(frame, ":", 1) = 0
            \/ Strip(PrefixOf(frame)) \notin KnownPrefixes

JunkLine == [l \in BodyLines |-> Unparseable(FrameText(l))]

\* The body without the lines whose frame cannot be read.
WithoutJunk(lines) == SelectSeq(lines, LAMBDA l : ~JunkLine[l])

\* C36: frames that cannot be read (malformed JSON behind '{', an unknown
\* prefix, no colon) never abort the stream and cause neither ban nor retry:
\* what a reader gets from a body is what it gets from the body with those
\* frames removed.
C36_JunkFramesChangeNothing ==
    consumed.state # "unset"
        => consumed = Consume(consumed.state, WithoutJunk(raw_lines))

\* A streamed body with malformed JSON and a colon-less frame between two
\* Text fragments.
C36_Witness ==
    /\ raw_lines = <<"data: a0:\"Hi\"", "data: {bad json", "data: nocolon",
                     "data: a0:\" there\"">>
    /\ consumed.state = "streamed"
    /\ consumed.exc = <<>>
    /\ ContentsOf(consumed.out) = <<"Hi", " there">>

\* A line that carries an End frame.
EndLine ==
    [l \in BodyLines |->
        \/ FrameText(l) = "[DONE]"
        \/ /\ ~StartsWith(FrameText(l), "{")
           /\ Strip(PrefixOf(FrameText(l))) \in {"ae", "ad"}]

\* A line that carries an in-band error.
ErrorLine ==
    [l \in BodyLines |-> FrameOfLine[l] # <<>> /\ FrameOfLine[l][1].type = "error"]

\* C38: processing stops at the first End frame: what a reader gets from a
\* body is what it gets from the body cut after an End frame, and when no
\* error stands before that frame the attempt ends without error, ban or
\* retry, whatever follows it.
C38_NothingIsReadAfterEnd ==
    consumed.state # "unset" =>
        \A k \in 1..Len(raw_lines) :
            EndLine[raw_lines[k]] =>
                /\ consumed = Consume(consumed.state, SubSeq(raw_lines, 1, k))
                /\ (\A j \in 1..(k - 1) : ~ErrorLine[raw_lines[j]])
                       => (consumed.exc = <<>> /\ ~consumed.ban /\ ~consumed.retry)

\* An aggregated body with a credential error and a Text fragment after End.
C38_Witness ==
    /\ raw_lines = <<"data: a0:\"Hi\"", "data: ad:{\"finishReason\":\"stop\"}",
                     "data: {\"error\":\"Usage limit reached\"}",
                     "data: a0:\" there\"">>
    /\ consumed.state = "aggregated"
    /\ consumed.out = <<"Hi">>
    /\ consumed.exc = <<>>

-----------------------------------------------------------------------------
(* JSON frames (SpecParser).                                               *)

\* C37: a frame that starts with '{', parses as JSON and carries a message
\* or an error field raises an error, whatever the value of the field; a JSON
\* frame with neither field is ignored.
C37_JsonFrameWithFieldRaises ==
    (/\ parsed.state = "parsed"
     /\ StartsWith(payload_text, "{")
     /\ JsonLoadsObject(payload_text).ok)
    => IF HasField(payload_text, "message") \/ HasField(payload_text, "error")
       THEN parsed.event.type = "error"
       ELSE parsed.event = Skip

-----------------------------------------------------------------------------
(* The shape of the built payload (SpecPayload).                           *)

\* C39: in every built payload the first node has no parent, every later
\* node, the placeholder included, has exactly one parent, the id of the node
\* immediately before it, and the ids of the nodes are pairwise distinct.
C39_NodesFormOneChain ==
    payload.state = "built" =>
        LET nodes == payload.messages
        IN  /\ nodes[1].parentMessageIds = <<>>
            /\ \A i \in 2..Len(nodes) : nodes[i].parentMessageIds = <<nodes[i - 1].id>>
            /\ \A i, j \in 1..Len(nodes) : i # j => nodes[i].id # nodes[j].id

\* A payload of four nodes whose third message follows an assistant message.
C39_Witness ==
    /\ payload.state = "built"
    /\ Len(messages) = 3
    /\ messages[1].role = "user"
    /\ messages[2].role = "assistant"
    /\ Len(payload.messages) = 4
    /\ payload.messages[4].parentMessageIds = <<payload.messages[3].id>>

\* The roles that are sent as user.
UserRoles == {"user", "system"}

\* C40: in every built payload userMessageId is the id of the last node
\* whose role is user, the node of a system message counting as one,
\* modelAMessageId is the id of the trailing placeholder, and a node carries
\* a model id exactly when its role is assistant.
C40_IdsPointAtTheRightNodes ==
    payload.state = "built" =>
        LET nodes == payload.messages
            last == Len(nodes)
        IN  /\ \E k \in 1..Len(messages) :
                  /\ messages[k].role \in UserRoles
                  /\ \A j \in (k + 1)..Len(messages) : messages[j].role \notin UserRoles
                  /\ nodes[k].role = "user"
                  /\ \A j \in (k + 1)..last : nodes[j].role # "user"
                  /\ payload.userMessageId = nodes[k].id
            /\ payload.modelAMessageId = nodes[last].id
            /\ nodes[last].role = "assistant" /\ nodes[last].content = ""
            /\ \A i \in 1..last :
                  (nodes[i].modelId # <<>>) <=> (nodes[i].role = "assistant")

\* The last user node comes from a system message and an assistant message
\* follows it.
C40_Witness ==
    /\ payload.state = "built"
    /\ Len(messages) = 3
    /\ messages[1].role = "user"
    /\ messages[2].role = "system"
    /\ messages[3].role = "assistant"
    /\ payload.userMessageId = payload.messages[2].id
    /\ payload.messages[3].modelId # <<>>
    /\ payload.messages[2].modelId = <<>>

====
